---- MODULE Spec2Model ----
(***************************************************************************)
(* Model of the agent orchestration loop of mcp-framework (src/agent.rs). *)
(*                                                                         *)
(* The variables describe two Agent objects, a1 and a2, configured alike. *)
(* Under Spec only a1 lives: the caller drives it through any sequence of *)
(* Agent::run, Agent::run_with_events and Agent::clear_conversation.      *)
(* Under SpecPair the caller drives a1 through run and clear_conversation *)
(* and repeats every operation on a2, with run_with_events in the place   *)
(* of run, which puts the two methods side by side on the same inputs.    *)
(*                                                                         *)
(* The environment (McpClient::list_tools, LLMProvider::call and          *)
(* McpClient::call_tool) answers arbitrarily, but it answers the same     *)
(* question the same way: an answer is chosen when a question is asked    *)
(* for the first time and recorded, and whoever asks the same question    *)
(* again gets the recorded answer.  A question is the conversation the    *)
(* agent holds when it asks.                                               *)
(*                                                                         *)
(* More specifications share the variables.  SpecTools drives a1          *)
(* over every tool catalog and disallow list (set_disallowed_tools,       *)
(* disallow_tool) to follow what Agent::get_available_tools hands to the  *)
(* LLM.  SpecSession drives one Session (src/session.rs) over an http or  *)
(* stdio connector through connect, initialize, disconnect, the refresh   *)
(* operations and the requests.  SpecClient drives a single-endpoint      *)
(* McpClient (src/client.rs) through initialize and its operations, which *)
(* run on the stored session or on a session built for the one call.      *)
(* SpecMulti drives a multi-server McpClient through add_server,          *)
(* create_all_sessions, the operations addressed to one server,           *)
(* list_all_tools and the close operations.  SpecConc interleaves three   *)
(* callers of an initialized client on the lock of its session, SpecPipe  *)
(* three callers of StdioConnector::send_request on the pipes of the      *)
(* child.  SpecConnector drives one connector of either kind through      *)
(* connect, disconnect and the requests of the Connector trait            *)
(* (src/connectors).  SpecCodec encodes and decodes JSON-RPC requests     *)
(* (src/protocol.rs), SpecServer registers and lists the tools of a       *)
(* McpServer (src/server.rs).                                             *)
(***************************************************************************)
EXTENDS Integers, Sequences, FiniteSets, TLC

\* ------------------------------------------------------------------ bounds
MaxIterTools == 1   \* SpecTools: max_iterations ranges over 1..MaxIterTools
MaxList == 2        \* a listing of the endpoint holds up to MaxList entries
MaxIter == 2        \* AgentConfig.max_iterations ranges over 0..MaxIter
MaxConv == 3        \* a run starts only if history + max_iterations <= MaxConv
MaxRegistered == 3  \* SpecServer: register_tool is called up to MaxRegistered times
MaxFunctionCalls == 2  \* a vendor response holds up to MaxFunctionCalls function calls
MaxLocator == 4     \* SpecLocator: a locator holds up to MaxLocator characters after its beginning

\* --------------------------------------------------------------- universes
Agents == {"a1", "a2"}
Other(a) == IF a = "a1" THEN "a2" ELSE "a1"
Methods == {"run", "run_with_events"}
AgentState == {"Ready", "Running", "WaitingForToolResult", "Done", "Error"}
StopReason == {"EndTurn", "ToolUse", "MaxTokens"}
Prompts == {"hello"}
\* the block kinds of the turns the LLM provider may hand back
TurnShapes == { <<"text">>, <<"text", "tool_use">>,
                <<"tool_use", "tool_use">>, <<"image">> }

VARIABLES
    max_iterations,            \* AgentConfig.max_iterations (both agents)
    disallowed_tools,          \* Agent.disallowed_tools, per agent
    state,                     \* Agent.state, per agent
    conversation,              \* Agent.conversation, per agent
    pc,                        \* position of the run future, per agent
    method,                    \* the method that future belongs to
    turn,                      \* SpecPair: the agent the caller turns to next
    iterations,                \* local `iterations`
    final_response,            \* local `final_response` (sequence of chunks)
    tools,                     \* local `tools`
    llm_response,              \* local `llm_response`
    has_tool_use,              \* local `has_tool_use`
    assistant_message_added,   \* local `assistant_message_added`
    cursor,                    \* index of the block the for loop is at
    ret,                       \* what the last run returned
    events,                    \* what on_event received during the run
    trace,                     \* calls on client and llm completed during the run
    startConv,                 \* the conversation the run started from
    fetchAns,                  \* environment: recorded list_tools answers
    llmAns,                    \* environment: recorded LLM answers
    toolAns,                   \* environment: recorded call_tool answers
    catalog,                   \* environment: the tools the endpoint lists
    connector_kind,            \* the transport of the connectors: http or stdio
    session,                   \* a Session object driven directly
    session_last,              \* what the last operation on `session` did
    client,                    \* a single-endpoint McpClient
    client_last,               \* what the last operation on `client` did
    multi,                     \* a multi-server McpClient
    multi_last,                \* what the last operation on `multi` did
    conc,                      \* concurrent callers of an initialized client
    pipe,                      \* concurrent send_request on a StdioConnector
    connector,                 \* a connector driven directly
    connector_last,            \* what the last operation on `connector` did
    codec,                     \* a JSON-RPC request, encoded and decoded
    server,                    \* a McpServer and the tools registered on it
    server_last,               \* what the last operation on `server` did
    locator,                   \* an endpoint locator and the connector made of it
    adapter                    \* one call of the OpenAI adapter

configVars == <<max_iterations, disallowed_tools>>
agentVars == <<configVars, state, conversation>>
localVars == <<iterations, final_response, tools, llm_response, has_tool_use,
               assistant_message_added, cursor>>
obsVars   == <<ret, events, trace, startConv>>
envVars   == <<fetchAns, llmAns, toolAns>>
ctlVars   == <<pc, method, turn>>
\* what no operation of the agent changes
sessionVars == <<session, session_last>>
clientVars == <<client, client_last>>
multiVars == <<multi, multi_last>>
\* the objects apart from the agents, the session and the single-endpoint client
connectorVars == <<connector, connector_last>>
serverVars == <<server, server_last>>
moreVars == <<locator, adapter>>
restVars == <<multiVars, conc, pipe, connectorVars, codec, serverVars, moreVars>>
outsideAgent == <<catalog, connector_kind, sessionVars, clientVars, restVars>>
vars      == <<agentVars, ctlVars, localVars, obsVars, envVars, outsideAgent>>

\* ------------------------------------------------------- protocol values
TextBlock(t) == [type |-> "text", text |-> t]
ToolUseBlock(i, n, inp) == [type |-> "tool_use", id |-> i, name |-> n, input |-> inp]
ToolResultBlock(i, c, e) ==
    [type |-> "tool_result", tool_use_id |-> i, content |-> c, is_error |-> e]
ImageBlock(s) == [type |-> "image", source |-> s]

MessageUser(text) == [content |-> <<TextBlock(text)>>, role |-> "User"]

\* the content blocks of a turn with block kinds `shape`, returned for a
\* conversation of n messages; ids, inputs and texts are <<n, position>>,
\* which makes them distinct within every conversation
TurnContent(shape, n) ==
    [i \in 1..Len(shape) |->
        CASE shape[i] = "text"     -> TextBlock(<<n, i>>)
          [] shape[i] = "tool_use" -> ToolUseBlock(<<n, i>>, "tool", <<n, i>>)
          [] OTHER                 -> ImageBlock(<<n, i>>)]

\* a tool of the catalog; the agent looks at its name only
Tool(n) == [name |-> n]
ToolNames == {"tool", "other"}
Catalogs == { <<Tool("tool"), Tool("other")>>, <<Tool("other")>>, <<>> }
DisallowLists == { <<>>, <<"tool">>, <<"other", "tool">> }

FetchOutcomes ==
    { [tools |-> catalog, ok |-> TRUE], [ok |-> FALSE, error |-> "ConnectionError"] }
LlmOutcomes(messages) ==
    { [ok |-> FALSE, error |-> "provider"] } \cup
    { [content |-> TurnContent(s, Len(messages)), ok |-> TRUE, stop_reason |-> sr] :
        s \in TurnShapes, sr \in StopReason }
ToolOutcomes ==
    { [content |-> "out", is_error |-> "None", ok |-> TRUE],
      [content |-> "failed", is_error |-> "Some(true)", ok |-> TRUE],
      [ok |-> FALSE, error |-> "ServerError"] }

\* ---------------------------------------------------------------- helpers
NoReturn == [kind |-> "None"]
Ok(v) == [kind |-> "Ok", value |-> v]
Err(e) == [error |-> e, kind |-> "Err"]

\* the environment answers question q with o: the recorded answer when q
\* was asked before, any answer (recorded now) otherwise
Answer(answers, q, o) ==
    IF \E e \in answers : e.q = q
    THEN [a |-> o, q |-> q] \in answers /\ answers' = answers
    ELSE answers' = answers \cup {[a |-> o, q |-> q]}

\* variant of push_back that puts the message at the front (VecDeque::push_front)
PushBack_Front(conv, m) == <<m>> \o conv

PushBack(conv, m) == Append(conv, m)

\* variant of the assistant message that keeps none of the blocks of the turn
AssistantMessage_Empty(resp) == [content |-> <<>>, role |-> "Assistant"]

AssistantMessage(resp) == [content |-> resp.content, role |-> "Assistant"]

\* variant of the tool-result message that drops the error flag
ToolResultMessage_NoFlag(id, content, is_error) ==
    [content |-> <<ToolResultBlock(id, content, "None")>>, role |-> "User"]

ToolResultMessage(id, content, is_error) ==
    [content |-> <<ToolResultBlock(id, content, is_error)>>, role |-> "User"]

\* variant of the loop condition that leaves the budget out
LoopCond_StateOnly(it, st) == st = "Running"

\* variant of the loop condition that admits one more iteration
LoopCond_Inclusive(it, st) == it <= max_iterations /\ st = "Running"

\* while iterations < self.config.max_iterations && self.state == Running
LoopCond(it, st) == it < max_iterations /\ st = "Running"

\* variant of the test that ends the run on a turn without a tool request only
ShouldStop_NoToolOnly(htu, sr) == ~htu
\* if !has_tool_use || llm_response.stop_reason == StopReason::EndTurn
ShouldStop(htu, sr) == ~htu \/ sr = "EndTurn"

\* if iterations >= self.config.max_iterations
BudgetCheck(it) == it >= max_iterations

Idle(a) == pc[a] \in {"idle", "returned"}

Contains(list, x) == \E i \in DOMAIN list : list[i] = x
Range(list) == {list[i] : i \in DOMAIN list}

\* variant of get_available_tools that hands the whole catalog on
GetAvailableTools_Unfiltered(all_tools, disallowed) == all_tools

\* agent.rs 252-258: the catalog without the tools of the disallow list
GetAvailableTools(all_tools, disallowed) ==
    SelectSeq(all_tools, LAMBDA t : ~Contains(disallowed, t.name))

NoResponse == [content |-> <<>>, stop_reason |-> "EndTurn"]

\* the run future of agent a completes with r; its locals are dropped
Return(a, r) ==
    /\ ret' = [ret EXCEPT ![a] = r]
    /\ pc' = [pc EXCEPT ![a] = "returned"]
    /\ iterations' = [iterations EXCEPT ![a] = 0]
    /\ final_response' = [final_response EXCEPT ![a] = <<>>]
    /\ tools' = [tools EXCEPT ![a] = <<>>]
    /\ llm_response' = [llm_response EXCEPT ![a] = NoResponse]
    /\ has_tool_use' = [has_tool_use EXCEPT ![a] = FALSE]
    /\ assistant_message_added' = [assistant_message_added EXCEPT ![a] = FALSE]
    /\ cursor' = [cursor EXCEPT ![a] = 1]

\* ret, events, trace and startConv hold what is observed of the run of an
\* agent that is in progress or was the last to complete; when a run of a1
\* starts, what was observed of the last run of a2 is dropped as well
AtStart(f, a, v, none) ==
    IF a = "a1"
    THEN [b \in Agents |-> IF b = a THEN v ELSE none]
    ELSE [f EXCEPT ![a] = v]

\* the recorded answers are those given since the last run of a1 started
EnvAtStart(a) ==
    IF a = "a1"
    THEN fetchAns' = {} /\ llmAns' = {} /\ toolAns' = {}
    ELSE UNCHANGED envVars

\* the driver starts a run of agent a only within the bounds of the model
RunAllowed(a) == Len(conversation[a]) + max_iterations <= MaxConv

\* ------------------------------------------------------------- Session
\* session.rs 9-27: a Session, with the `connected` flag of its connector
\* (http.rs 13, stdio.rs 18); a cache is the set of the values of the map,
\* each of them under its own key
SessionNew ==
    [connected |-> FALSE, initialized |-> FALSE,
     tools_cache |-> {}, resources_cache |-> {}, prompts_cache |-> {}]

ConnectorKinds == {"http", "stdio"}
Caches == {"tools", "resources", "prompts"}
CacheField(what) ==
    CASE what = "tools" -> "tools_cache"
      [] what = "resources" -> "resources_cache"
      [] OTHER -> "prompts_cache"
RefreshOp(what) ==
    CASE what = "tools" -> "refresh_tools"
      [] what = "resources" -> "refresh_resources"
      [] OTHER -> "refresh_prompts"
ListMethod(what) ==
    CASE what = "tools" -> "tools/list"
      [] what = "resources" -> "resources/list"
      [] OTHER -> "prompts/list"

\* what the endpoint may list: entries under two keys, the one under k1 in
\* two versions
EntryKeys == {"k1", "k2"}
EntryVersions == {"v1", "v2"}
Entry(what, k, v) ==
    IF what = "resources" THEN [uri |-> k, description |-> v]
                          ELSE [name |-> k, description |-> v]
Entries(what) ==
    {Entry(what, k, v) : k \in EntryKeys, v \in EntryVersions}
        \ {Entry(what, "k2", "v2")}
\* the listings of up to MaxList entries; a listing may hold two entries
\* under one key, but holds no entry twice
Listings(what) ==
    UNION {{l \in [1..n -> Entries(what)] : \A i, j \in 1..n : l[i] = l[j] => i = j} :
           n \in 0..MaxList}

\* the key an entry is cached under: tool.name, resource.uri, prompt.name
KeyOf(what, e) == IF what = "resources" THEN e.uri ELSE e.name

\* HashMap::insert
Insert(what, cache, e) ==
    {x \in cache : KeyOf(what, x) # KeyOf(what, e)} \cup {e}

\* for entry in list { cache.insert(key, entry) }
RECURSIVE InsertAll(_, _, _)
InsertAll(what, cache, list) ==
    IF list = <<>> THEN cache
    ELSE InsertAll(what, Insert(what, cache, Head(list)), Tail(list))

NotConnected == [ok |-> FALSE, error |-> "ConnectionError: Not connected"]

\* Connector::connect: HttpConnector never fails, StdioConnector fails when
\* the process cannot be spawned
ConnectOutcomesOf(kind) ==
    IF kind = "http" THEN { [ok |-> TRUE] }
    ELSE { [ok |-> TRUE], [ok |-> FALSE, error |-> "ConnectionError: spawn"] }
ConnectOutcomes == ConnectOutcomesOf(connector_kind)

\* Connector::initialize through send_request
HandshakeOutcomes(s) ==
    IF ~s.connected THEN {NotConnected}
    ELSE { [ok |-> TRUE, value |-> "capabilities"],
           [ok |-> FALSE, error |-> "ServerError"] }

\* Connector::list_tools / list_resources / list_prompts through send_request
ListOutcomesIn(s, listings) ==
    IF ~s.connected THEN {NotConnected}
    ELSE { [ok |-> FALSE, error |-> "ServerError"] } \cup
         { [ok |-> TRUE, list |-> l] : l \in listings }

ListOutcomes(s, what) == ListOutcomesIn(s, Listings(what))

\* Connector::call_tool, read_resource, get_prompt through send_request
RequestOutcomes(s) ==
    IF ~s.connected THEN {NotConnected}
    ELSE { [ok |-> TRUE, value |-> "result"], [ok |-> FALSE, error |-> "ServerError"] }

\* a call made on the connector, with its outcome
Call(req, o) == [req |-> req, result |-> o]

\* the effect of a Session method: the session afterwards, what the method
\* returned, and the calls it made on the connector
Effect(s, r, calls) == [s |-> s, r |-> r, calls |-> calls]
Result(o) == IF o.ok THEN Ok("()") ELSE Err(o.error)

\* session.rs 43-46
Session_connect(s, o) ==
    Effect(IF o.ok THEN [s EXCEPT !.connected = TRUE] ELSE s,
           Result(o), <<Call("connect", o)>>)

\* variant of a refresh that empties the cache before it asks for the listing
Session_refresh_ClearFirst(s, what, o) ==
    Effect([s EXCEPT ![CacheField(what)] =
                IF o.ok THEN InsertAll(what, {}, o.list) ELSE {}],
           Result(o), <<Call(ListMethod(what), o)>>)

\* variant of a refresh that merges the listing into the cache
Session_refresh_Merge(s, what, o) ==
    Effect(IF o.ok
           THEN [s EXCEPT ![CacheField(what)] = InsertAll(what, @, o.list)]
           ELSE s,
           Result(o), <<Call(ListMethod(what), o)>>)

\* session.rs 78-85, 107-114, 136-143: refresh_tools, refresh_resources,
\* refresh_prompts
Session_refresh(s, what, o) ==
    Effect(IF o.ok
           THEN [s EXCEPT ![CacheField(what)] = InsertAll(what, {}, o.list)]
           ELSE s,
           Result(o), <<Call(ListMethod(what), o)>>)

\* variant of initialize that hands on the failure of the refresh
Session_initialize_Strict(s, h, l) ==
    IF ~h.ok THEN Effect(s, Err(h.error), <<Call("initialize", h)>>)
    ELSE LET refreshed == Session_refresh([s EXCEPT !.initialized = TRUE], "tools", l)
         IN  Effect(refreshed.s, IF l.ok THEN Ok(h.value) ELSE Err(l.error),
                    <<Call("initialize", h)>> \o refreshed.calls)

\* session.rs 49-54: h answers the handshake, l the tools/list that follows
Session_initialize(s, h, l) ==
    IF ~h.ok THEN Effect(s, Err(h.error), <<Call("initialize", h)>>)
    ELSE LET refreshed == Session_refresh([s EXCEPT !.initialized = TRUE], "tools", l)
         IN  Effect(refreshed.s, Ok(h.value),
                    <<Call("initialize", h)>> \o refreshed.calls)

\* variant of disconnect that drops the caches as well
Session_disconnect_Forgetful(s) ==
    Effect(SessionNew, Ok("()"),
           <<Call("disconnect", [ok |-> TRUE])>>)

\* session.rs 67-71; HttpConnector::disconnect and StdioConnector::disconnect
\* always return Ok
Session_disconnect(s) ==
    Effect([s EXCEPT !.connected = FALSE, !.initialized = FALSE], Ok("()"),
           <<Call("disconnect", [ok |-> TRUE])>>)

\* session.rs 98-100, 127-129, 156-158: call_tool, read_resource, get_prompt
Session_request(s, req, o) ==
    Effect(s, IF o.ok THEN Ok(o.value) ELSE Err(o.error), <<Call(req, o)>>)

\* session.rs 88-90: get_tools (the values of the map, in no order)
Session_get_tools(s) == s.tools_cache

NoCall == [r |-> NoReturn, calls |-> <<>>, op |-> "none"]
Done(op, eff) == [r |-> eff.r, calls |-> eff.calls, op |-> op]

\* Option<Arc<Mutex<Session>>>
None == [some |-> FALSE]
Some(s) == [s |-> s, some |-> TRUE]

\* client.rs 76-84: McpClient::new
ClientNew == [session |-> None, initialized |-> FALSE]

\* client.rs 86-94: McpClient::new_multi (no server configured, no session)
MultiNew ==
    [servers_config |-> [n \in {} |-> "none"], sessions |-> [n \in {} |-> SessionNew]]
NoMultiCall == [name |-> "", r |-> NoReturn, calls |-> <<>>, op |-> "none"]

\* the objects of restVars as constructed, but for the one named
\* the callers: tasks holding the client or a clone of it; a clone shares the
\* Arc<Mutex<Session>> of the stored session (client.rs 45-49)
Callers == {"t1", "t2", "t3"}
ClientOps == {"list_tools", "call_tool", "list_resources", "read_resource", "list_prompts"}

\* the callers of an initialized client at rest, the lock of its session free
ConcNew ==
    [pc |-> [t \in Callers |-> "idle"],
     r |-> [t \in Callers |-> NoReturn],
     op |-> [t \in Callers |-> "none"],
     mutex |-> "none",
     in_flight |-> {}]

\* a connected StdioConnector at rest: the guard on the child free, nothing in
\* the pipes of the child
PipeNew ==
    [pc |-> [t \in Callers |-> "idle"],
     child_lock |-> "none",
     stdin |-> <<>>,
     stdout |-> <<>>,
     got |-> [t \in Callers |-> "none"]]

\* http.rs 18-24, stdio.rs 22-30: HttpConnector::new, StdioConnector::new
ConnectorNew(kind) == [kind |-> kind, connected |-> FALSE]
NoConnectorCall ==
    [x |-> [error |-> FALSE, result |-> "absent", io |-> "none"],
     r |-> NoReturn,
     op |-> "none",
     exchanged |-> FALSE]

\* a request made and not yet encoded
CodecNew(req) ==
    [stage |-> "new", request |-> req,
     wire |-> [n \in {} |-> <<"json", "null">>],
     decoded |-> [method |-> "", id |-> "", jsonrpc |-> "", params |-> None]]

\* server.rs 59-69: McpServer::new; `registered` lists the tools handed to
\* register_tool so far
ServerNew ==
    [tools |-> [n \in {} |-> [name |-> n, description |-> ""]], registered |-> <<>>]
\* `params` and `response` are those of a tools/call request, and `executed`
\* lists the names the tool handler's execute was invoked with during it
NoCallParams == [name |-> [some |-> FALSE], present |-> FALSE]
NoServerCall ==
    [op |-> "none",
     params |-> NoCallParams,
     listing |-> <<>>,
     response |-> [result |-> "none", error_code |-> 0],
     executed |-> <<>>]

\* no locator handed to create_connector_from_url yet
LocatorNew == [r |-> NoReturn, url |-> <<>>]

\* the adapter of the agent's LLM before its call is entered: its vendor,
\* whether it holds an MCP client of its own (openai.rs 109), the position
\* of the call, the iterations and vendor requests of the call so far, the
\* function calls of the last response still to execute, the kind of the
\* last response, and what the call returned
AdapterNew ==
    [pc |-> "idle", r |-> NoReturn, iteration |-> 0, requests |-> 0,
     function_calls |-> 0, vendor |-> "anthropic", mcp_client |-> FALSE,
     last |-> "none"]

RestUnused(used) ==
    /\ IF used = "locator" THEN TRUE ELSE locator = LocatorNew
    /\ IF used = "adapter" THEN TRUE ELSE adapter = AdapterNew
    /\ IF used = "multi" THEN TRUE
       ELSE multi = MultiNew /\ multi_last = NoMultiCall
    /\ IF used = "conc" THEN TRUE ELSE conc = ConcNew
    /\ IF used = "pipe" THEN TRUE ELSE pipe = PipeNew
    /\ IF used = "connector" THEN TRUE
       ELSE connector = ConnectorNew("http") /\ connector_last = NoConnectorCall
    /\ IF used = "codec" THEN TRUE
       ELSE codec = CodecNew([method |-> "initialize",
                              id |-> "uuid",
                              jsonrpc |-> "2.0",
                              params |-> None])
    /\ IF used = "server" THEN TRUE
       ELSE server = ServerNew /\ server_last = NoServerCall

NoSessions ==
    /\ connector_kind = "http"
    /\ session = SessionNew
    /\ session_last = NoCall
    /\ client = ClientNew
    /\ client_last = NoCall
    /\ RestUnused("none")

\* the operations of the caller on `session`
Sess_Apply(op, eff) ==
    /\ session' = eff.s
    /\ session_last' = Done(op, eff)
    /\ UNCHANGED <<agentVars, ctlVars, localVars, obsVars, envVars, catalog,
                   connector_kind, clientVars, restVars>>

Sess_Connect ==
    \E o \in ConnectOutcomes : Sess_Apply("connect", Session_connect(session, o))

Sess_Initialize ==
    \E h \in HandshakeOutcomes(session) :
        \E l \in ListOutcomes([session EXCEPT !.initialized = TRUE], "tools") :
            Sess_Apply("initialize", Session_initialize(session, h, l))

Sess_Disconnect == Sess_Apply("disconnect", Session_disconnect(session))

Sess_Refresh ==
    \E what \in Caches : \E o \in ListOutcomes(session, what) :
        Sess_Apply(RefreshOp(what), Session_refresh(session, what, o))

Sess_Request ==
    \E req \in {"tools/call", "resources/read", "prompts/get"} :
        \E o \in RequestOutcomes(session) :
            Sess_Apply(req, Session_request(session, req, o))

\* the agent part of the state when no agent is in use
AgentsUnused ==
    /\ max_iterations = 10
    /\ disallowed_tools = [a \in Agents |-> <<>>]
    /\ catalog = <<>>
    /\ state = [a \in Agents |-> "Ready"]
    /\ conversation = [a \in Agents |-> <<>>]
    /\ pc = [a \in Agents |-> "idle"]
    /\ method = [a \in Agents |-> "none"]
    /\ turn = "a1"
    /\ iterations = [a \in Agents |-> 0]
    /\ final_response = [a \in Agents |-> <<>>]
    /\ tools = [a \in Agents |-> <<>>]
    /\ llm_response = [a \in Agents |-> NoResponse]
    /\ has_tool_use = [a \in Agents |-> FALSE]
    /\ assistant_message_added = [a \in Agents |-> FALSE]
    /\ cursor = [a \in Agents |-> 1]
    /\ ret = [a \in Agents |-> NoReturn]
    /\ events = [a \in Agents |-> <<>>]
    /\ trace = [a \in Agents |-> <<>>]
    /\ startConv = [a \in Agents |-> <<>>]
    /\ fetchAns = {}
    /\ llmAns = {}
    /\ toolAns = {}

InitSession ==
    /\ AgentsUnused
    /\ connector_kind \in ConnectorKinds
    /\ session = SessionNew
    /\ session_last = NoCall
    /\ client = ClientNew
    /\ client_last = NoCall
    /\ RestUnused("none")

NextSession ==
    \/ Sess_Connect \/ Sess_Initialize \/ Sess_Disconnect
    \/ Sess_Refresh \/ Sess_Request

SpecSession == InitSession /\ [][NextSession]_vars

\* ------------------------------------------------------------ McpClient
\* what the endpoint of the client may list
ClientListings(what) ==
    { <<>>, <<Entry(what, "k1", "v1")>>,
      <<Entry(what, "k2", "v1"), Entry(what, "k1", "v2")>> }

ClientListOutcomes(s, what) == ListOutcomesIn(s, ClientListings(what))

\* the calls of an operation, each with the session it was made on
On(which, calls) ==
    [i \in DOMAIN calls |->
        [req |-> calls[i].req, result |-> calls[i].result, on |-> which]]

\* Session::new, connect, initialize on a connector made from the url
\* (client.rs 164-167, 185-188, ...): c answers the connect, h the handshake,
\* l the tools/list of Session::initialize
OnDemand(c, h, l) ==
    LET connected == Session_connect(SessionNew, c) IN
    IF connected.r.kind = "Err" THEN connected
    ELSE LET initialized == Session_initialize(connected.s, h, l)
         IN  Effect(initialized.s, initialized.r,
                    connected.calls \o initialized.calls)

\* then(eff, next): the `?` after a step, followed by the next step
Then(eff, next) ==
    IF eff.r.kind = "Err" THEN eff
    ELSE Effect(next.s, next.r, eff.calls \o next.calls)

\* variant in which an operation never looks for a stored session
UseSession_AlwaysFresh(c) == "fresh"

\* if let Some(session_arc) = &self.session ... else if let Some(url) = &self.url
UseSession(c) == IF c.session.some THEN "stored" ELSE "fresh"

\* variant in which the session made for one operation is kept by the client
AfterOnDemand_Keep(c, s) == [c EXCEPT !.session = Some(s)]

\* the session made for one operation goes out of scope when it returns
AfterOnDemand(c, s) == c

\* client.rs 366-368: is_connected (no multi-server session on this client)
Client_is_connected(c) == c.session.some

Client_Apply(op, c, which, eff) ==
    /\ client' = c
    /\ client_last' = [r |-> eff.r, calls |-> On(which, eff.calls), op |-> op]
    /\ UNCHANGED <<agentVars, ctlVars, localVars, obsVars, envVars, catalog,
                   connector_kind, sessionVars, restVars>>

\* client.rs 162-175: McpClient::initialize
Client_Initialize ==
    \E c \in ConnectOutcomes :
      \E h \in HandshakeOutcomes(Session_connect(SessionNew, c).s) :
        \E l \in ClientListOutcomes(Session_connect(SessionNew, c).s, "tools") :
          LET eff == OnDemand(c, h, l) IN
          Client_Apply("initialize",
                       IF eff.r.kind = "Ok"
                       THEN [session |-> Some(eff.s), initialized |-> TRUE]
                       ELSE client,
                       "fresh", eff)

\* what a list operation returns: the values of the refreshed cache
Listed_(eff, what) ==
    Effect(eff.s, IF eff.r.kind = "Ok" THEN Ok(eff.s[CacheField(what)]) ELSE eff.r,
           eff.calls)

ListOp(what) ==
    CASE what = "tools" -> "list_tools"
      [] what = "resources" -> "list_resources"
      [] OTHER -> "list_prompts"

\* client.rs 178-194, 214-230, 248-264: list_tools, list_resources, list_prompts
Client_List ==
    \E what \in Caches :
      IF UseSession(client) = "stored"
      THEN \E o \in ClientListOutcomes(client.session.s, what) :
             LET eff == Listed_(Session_refresh(client.session.s, what, o), what) IN
             Client_Apply(ListOp(what), [client EXCEPT !.session = Some(eff.s)],
                          "stored", eff)
      ELSE \E c \in ConnectOutcomes :
            \E h \in HandshakeOutcomes(Session_connect(SessionNew, c).s) :
             \E l \in ClientListOutcomes(Session_connect(SessionNew, c).s, "tools") :
              LET made == OnDemand(c, h, l) IN
              \E o \in ClientListOutcomes(made.s, what) :
                LET eff == Then(made, Listed_(Session_refresh(made.s, what, o), what)) IN
                Client_Apply(ListOp(what), AfterOnDemand(client, eff.s), "fresh", eff)

RequestOp(req) == IF req = "tools/call" THEN "call_tool" ELSE "read_resource"

\* client.rs 197-211, 233-245: call_tool, read_resource
Client_Request ==
    \E req \in {"tools/call", "resources/read"} :
      IF UseSession(client) = "stored"
      THEN \E o \in RequestOutcomes(client.session.s) :
             LET eff == Session_request(client.session.s, req, o) IN
             Client_Apply(RequestOp(req), [client EXCEPT !.session = Some(eff.s)],
                          "stored", eff)
      ELSE \E c \in ConnectOutcomes :
            \E h \in HandshakeOutcomes(Session_connect(SessionNew, c).s) :
             \E l \in ClientListOutcomes(Session_connect(SessionNew, c).s, "tools") :
              LET made == OnDemand(c, h, l) IN
              \E o \in RequestOutcomes(made.s) :
                LET eff == Then(made, Session_request(made.s, req, o)) IN
                Client_Apply(RequestOp(req), AfterOnDemand(client, eff.s), "fresh", eff)

InitClient ==
    /\ AgentsUnused
    /\ connector_kind \in ConnectorKinds
    /\ session = SessionNew
    /\ session_last = NoCall
    /\ client = ClientNew
    /\ client_last = NoCall
    /\ RestUnused("none")

NextClient == Client_Initialize \/ Client_List \/ Client_Request

SpecClient == InitClient /\ [][NextClient]_vars

\* ------------------------------------------------ McpClient, multi-server
ServerNames == {"s1", "s2"}
\* what a MCPServerConfig asks for: an http url, a command to spawn, a url of
\* another scheme, or neither url nor command (config.rs 76-90)
Transports == {"http", "stdio", "ftp", "none"}

\* HashMap::insert / DashMap::insert, DashMap::remove
Put(map, k, v) == [n \in DOMAIN map \cup {k} |-> IF n = k THEN v ELSE map[n]]
Remove(map, k) == [n \in DOMAIN map \ {k} |-> map[n]]

\* the orders in which the keys of a map may be visited
Orders(S) ==
    {o \in [1..Cardinality(S) -> S] : \A i, j \in 1..Cardinality(S) : o[i] = o[j] => i = j}

\* client.rs 137-156: create_session_from_config; c answers the connect, h
\* the handshake, l the tools/list of Session::initialize
Create_session_from_config(transport, c, h, l) ==
    IF transport = "none"
    THEN Effect(SessionNew, Err("InvalidRequest: no valid transport configuration"), <<>>)
    ELSE IF transport = "ftp"
    THEN Effect(SessionNew, Err("InvalidRequest: Unsupported URL scheme"), <<>>)
    ELSE OnDemand(c, h, l)

\* what building the session of a configured endpoint may come to
CreateEffects(transport) ==
    UNION { UNION { { Create_session_from_config(transport, c, h, l) :
                        l \in ClientListOutcomes(Session_connect(SessionNew, c).s, "tools") } :
                    h \in HandshakeOutcomes(Session_connect(SessionNew, c).s) } :
            c \in ConnectOutcomesOf(transport) }

\* the calls made on the endpoints visited, in the order of the visits
RECURSIVE CallsInOrder(_, _)
CallsInOrder(order, effs) ==
    IF order = <<>> THEN <<>>
    ELSE On(Head(order), effs[Head(order)].calls) \o CallsInOrder(Tail(order), effs)

\* variant of a loop over the endpoints that gives up at the first failure
Attempted_UntilFailure(order, effs, i) ==
    \A j \in 1..(i - 1) : effs[order[j]].r.kind = "Ok"

\* client.rs 274-286, 331-343: the loop over the names has no break and no
\* `?`: the i-th name is visited whatever the earlier ones came to
Attempted(order, effs, i) == TRUE

Visited(order, effs) ==
    SelectSeq([i \in DOMAIN order |-> [n |-> order[i], at |-> Attempted(order, effs, i)]],
              LAMBDA v : v.at)
VisitedNames(order, effs) ==
    [i \in DOMAIN Visited(order, effs) |-> Visited(order, effs)[i].n]

\* variant of a lookup that makes up a session for a name without one
Lookup_MakeUp(table, name) ==
    IF name \in DOMAIN table THEN Some(table[name]) ELSE Some(SessionNew)

\* DashMap::get / get_mut
Lookup(table, name) ==
    IF name \in DOMAIN table THEN Some(table[name]) ELSE None

NoActiveSession == Err("ServerError: No active session for server")

Multi_Apply(op, name, m, r, calls) ==
    /\ multi' = m
    /\ multi_last' = [name |-> name, r |-> r, calls |-> calls, op |-> op]
    /\ UNCHANGED <<agentVars, ctlVars, localVars, obsVars, envVars, catalog,
                   connector_kind, sessionVars, clientVars, conc, pipe, connectorVars,
                   codec, serverVars, moreVars>>

\* client.rs 97-99: add_server
Multi_AddServer ==
    \E n \in ServerNames : \E t \in Transports :
        Multi_Apply("add_server", n,
                    [multi EXCEPT !.servers_config = Put(@, n, t)], Ok("()"), <<>>)

\* the session table after the sessions built for the visited names are inserted
Created(table, names, effs) ==
    LET made == {n \in Range(names) : effs[n].r.kind = "Ok"}
    IN  [n \in DOMAIN table \cup made |-> IF n \in made THEN effs[n].s ELSE table[n]]

\* client.rs 270-298: create_all_sessions
Multi_CreateAllSessions ==
    LET configured == DOMAIN multi.servers_config
        all == UNION {CreateEffects(t) : t \in Transports}
    IN  \E order \in Orders(configured) :
        \E effs \in {f \in [configured -> all] :
                        \A n \in configured : f[n] \in CreateEffects(multi.servers_config[n])} :
          LET names == VisitedNames(order, effs) IN
          Multi_Apply("create_all_sessions", "",
                      [multi EXCEPT !.sessions = Created(@, names, effs)],
                      Ok("()"), CallsInOrder(names, effs))

\* client.rs 301-308: list_tools_for_server
Multi_ListToolsForServer ==
    \E n \in ServerNames :
      LET found == Lookup(multi.sessions, n) IN
      IF found.some
      THEN \E o \in ClientListOutcomes(found.s, "tools") :
             LET eff == Session_refresh(found.s, "tools", o) IN
             Multi_Apply("list_tools_for_server", n,
                         [multi EXCEPT !.sessions = Put(@, n, eff.s)],
                         IF eff.r.kind = "Ok"
                         THEN [tools |-> Session_get_tools(eff.s), kind |-> "Ok"]
                         ELSE eff.r,
                         On(n, eff.calls))
      ELSE Multi_Apply("list_tools_for_server", n, multi, NoActiveSession, <<>>)

\* client.rs 311-322: call_tool_on_server
Multi_CallToolOnServer ==
    \E n \in ServerNames :
      LET found == Lookup(multi.sessions, n) IN
      IF found.some
      THEN \E o \in RequestOutcomes(found.s) :
             LET eff == Session_request(found.s, "tools/call", o) IN
             Multi_Apply("call_tool_on_server", n, multi, eff.r, On(n, eff.calls))
      ELSE Multi_Apply("call_tool_on_server", n, multi, NoActiveSession, <<>>)

\* variant of list_all_tools that lists the cache of a session whatever its
\* refresh came to
Listed_all_Regardless(names, effs) ==
    [i \in DOMAIN names |-> [tools |-> Session_get_tools(effs[names[i]].s), name |-> names[i]]]

\* client.rs 333-341: a pair is pushed for each session whose refresh is Ok
Listed_all(names, effs) ==
    LET ok == SelectSeq(names, LAMBDA n : effs[n].r.kind = "Ok")
    IN  [i \in DOMAIN ok |-> [tools |-> Session_get_tools(effs[ok[i]].s), name |-> ok[i]]]

\* client.rs 325-346: list_all_tools
Multi_ListAllTools ==
    LET live == DOMAIN multi.sessions
        all == UNION {{Session_refresh(multi.sessions[n], "tools", o) :
                          o \in ClientListOutcomes(multi.sessions[n], "tools")} : n \in live}
    IN  \E order \in Orders(live) :
        \E effs \in {f \in [live -> all] :
                        \A n \in live : f[n] \in
                            {Session_refresh(multi.sessions[n], "tools", o) :
                                o \in ClientListOutcomes(multi.sessions[n], "tools")}} :
          LET names == VisitedNames(order, effs) IN
          Multi_Apply("list_all_tools", "",
                      [multi EXCEPT !.sessions =
                          [n \in live |-> IF n \in Range(names) THEN effs[n].s ELSE @[n]]],
                      [kind |-> "Ok", pairs |-> Listed_all(names, effs)],
                      CallsInOrder(names, effs))

\* variant of close_session that leaves the entry in the table
Close_session_Keep(table, name) ==
    IF name \in DOMAIN table
    THEN [r |-> Session_disconnect(table[name]).r,
          calls |-> On(name, Session_disconnect(table[name]).calls),
          sessions |-> table]
    ELSE [r |-> Ok("()"), calls |-> <<>>, sessions |-> table]

\* client.rs 349-355: close_session; the `?` hands on what disconnect returns
Close_session(table, name) ==
    IF name \in DOMAIN table
    THEN [r |-> Session_disconnect(table[name]).r,
          calls |-> On(name, Session_disconnect(table[name]).calls),
          sessions |-> Remove(table, name)]
    ELSE [r |-> Ok("()"), calls |-> <<>>, sessions |-> table]

Multi_CloseSession ==
    \E n \in ServerNames :
      LET closed == Close_session(multi.sessions, n) IN
      Multi_Apply("close_session", n, [multi EXCEPT !.sessions = closed.sessions],
                  closed.r, closed.calls)

\* for name in server_names { self.close_session(&name).await.ok(); }
RECURSIVE CloseEach(_, _)
CloseEach(table, order) ==
    IF order = <<>> THEN [calls |-> <<>>, sessions |-> table]
    ELSE LET closed == Close_session(table, Head(order))
             rest == CloseEach(closed.sessions, Tail(order))
         IN  [calls |-> closed.calls \o rest.calls, sessions |-> rest.sessions]

\* client.rs 358-364: close_all_sessions
Multi_CloseAllSessions ==
    \E order \in Orders(DOMAIN multi.sessions) :
      LET closed == CloseEach(multi.sessions, order) IN
      Multi_Apply("close_all_sessions", "", [multi EXCEPT !.sessions = closed.sessions],
                  Ok("()"), closed.calls)

InitMulti ==
    /\ AgentsUnused
    /\ connector_kind = "http"
    /\ session = SessionNew
    /\ session_last = NoCall
    /\ client = ClientNew
    /\ client_last = NoCall
    /\ multi = MultiNew
    /\ multi_last = NoMultiCall
    /\ RestUnused("multi")

NextMulti ==
    \/ Multi_AddServer \/ Multi_CreateAllSessions
    \/ Multi_ListToolsForServer \/ Multi_CallToolOnServer \/ Multi_ListAllTools
    \/ Multi_CloseSession \/ Multi_CloseAllSessions

SpecMulti == InitMulti /\ [][NextMulti]_vars

\* ------------------------------- concurrent callers of an initialized client
\* variant of the mutex that hands out its guard while another holds it
Available_Always(mutex) == TRUE

\* tokio::sync::Mutex: lock().await completes only while no guard is out
Available(mutex) == mutex = "none"

Conc_Apply(c) ==
    /\ conc' = c
    /\ UNCHANGED <<agentVars, ctlVars, localVars, obsVars, envVars, catalog,
                   connector_kind, sessionVars, clientVars, multiVars, pipe, connectorVars,
                   codec, serverVars, moreVars>>

\* a caller enters an operation and finds the stored session
\* (if let Some(session_arc) = &self.session)
Conc_Call ==
    \E t \in Callers : \E op \in ClientOps :
        /\ conc.pc[t] = "idle"
        /\ Conc_Apply([conc EXCEPT !.pc[t] = "lock", !.op[t] = op, !.r[t] = NoReturn])

\* session_arc.lock().await
Conc_Lock ==
    \E t \in Callers :
        /\ conc.pc[t] = "lock"
        /\ Available(conc.mutex)
        /\ Conc_Apply([conc EXCEPT !.pc[t] = "send", !.mutex = t])

\* the session method reaches Connector::send_request: the request goes out
Conc_Send ==
    \E t \in Callers :
        /\ conc.pc[t] = "send"
        /\ Conc_Apply([conc EXCEPT !.pc[t] = "receive",
                                   !.in_flight = @ \cup {t}])

\* the response or the failure of the exchange comes back
Conc_Receive ==
    \E t \in Callers : \E ok \in BOOLEAN :
        /\ conc.pc[t] = "receive"
        /\ Conc_Apply([conc EXCEPT !.pc[t] = "return",
                                   !.in_flight = @ \ {t},
                                   !.r[t] = IF ok THEN Ok("result") ELSE Err("ServerError")])

\* the operation returns (also through `?`) and its guard is dropped
Conc_Return ==
    \E t \in Callers :
        /\ conc.pc[t] = "return"
        /\ Conc_Apply([conc EXCEPT !.pc[t] = "idle", !.mutex = "none"])

InitConc ==
    /\ AgentsUnused
    /\ connector_kind = "http"
    /\ session = SessionNew
    /\ session_last = NoCall
    /\ client = ClientNew
    /\ client_last = NoCall
    /\ conc = ConcNew
    /\ RestUnused("conc")

NextConc == Conc_Call \/ Conc_Lock \/ Conc_Send \/ Conc_Receive \/ Conc_Return

SpecConc == InitConc /\ [][NextConc]_vars

\* ----------------------------- concurrent send_request on a StdioConnector
\* variant of the write in which the guard on the child ends with the write
AfterWrite_Unlock(p, t) ==
    [p EXCEPT !.pc[t] = "read", !.stdin = Append(@, t), !.child_lock = "none"]

\* stdio.rs 56-70: with the guard child_lock held, the request is written to
\* the stdin of the child as one line; the guard lives on to the return
AfterWrite(p, t) ==
    [p EXCEPT !.pc[t] = "read", !.stdin = Append(@, t)]

Pipe_Apply(p) ==
    /\ pipe' = p
    /\ UNCHANGED <<agentVars, ctlVars, localVars, obsVars, envVars, catalog,
                   connector_kind, sessionVars, clientVars, multiVars, conc,
                   connectorVars, codec, serverVars, moreVars>>

\* a caller enters send_request on the connected connector (stdio.rs 51-54)
Pipe_Call ==
    \E t \in Callers :
        /\ pipe.pc[t] = "idle"
        /\ Pipe_Apply([pipe EXCEPT !.pc[t] = "lock", !.got[t] = "none"])

\* self.child.lock().await (stdio.rs 56)
Pipe_Lock ==
    \E t \in Callers :
        /\ pipe.pc[t] = "lock"
        /\ Available(pipe.child_lock)
        /\ Pipe_Apply([pipe EXCEPT !.pc[t] = "write", !.child_lock = t])

\* writeln!(stdin, ...) (stdio.rs 65-67)
Pipe_Write ==
    \E t \in Callers :
        /\ pipe.pc[t] = "write"
        /\ Pipe_Apply(AfterWrite(pipe, t))

\* the child takes a request line and answers it with one line
Pipe_ChildAnswers ==
    /\ pipe.stdin # <<>>
    /\ Pipe_Apply([pipe EXCEPT !.stdin = Tail(@),
                               !.stdout = Append(@, Head(pipe.stdin))])

\* BufReader::new(stdout).read_line (stdio.rs 73-78): the first line is the
\* response; the reader is dropped with whatever else it had buffered, any
\* number k - 1 of the lines after the first
Pipe_Read ==
    \E t \in Callers : \E k \in 1..Len(pipe.stdout) :
        /\ pipe.pc[t] = "read"
        /\ Pipe_Apply([pipe EXCEPT !.pc[t] = "return",
                                   !.got[t] = Head(pipe.stdout),
                                   !.stdout = SubSeq(@, k + 1, Len(@))])

\* the response is parsed and returned; the guard is dropped if t holds it
Pipe_Return ==
    \E t \in Callers :
        /\ pipe.pc[t] = "return"
        /\ Pipe_Apply([pipe EXCEPT !.pc[t] = "idle",
                                   !.child_lock = IF @ = t THEN "none" ELSE @])

InitPipe ==
    /\ AgentsUnused
    /\ connector_kind = "stdio"
    /\ session = SessionNew
    /\ session_last = NoCall
    /\ client = ClientNew
    /\ client_last = NoCall
    /\ pipe = PipeNew
    /\ RestUnused("pipe")

NextPipe ==
    \/ Pipe_Call \/ Pipe_Lock \/ Pipe_Write \/ Pipe_ChildAnswers
    \/ Pipe_Read \/ Pipe_Return

SpecPipe == InitPipe /\ [][NextPipe]_vars

\* --------------------------------------------------------- the connectors
\* error.rs 6-45: a variant of Error with its message
Error(variant, msg) == Err([variant |-> variant, msg |-> msg])

\* what an exchange with the endpoint may come to: the transport fails (io
\* "failure"), the body or line received is not a response envelope (io
\* "malformed"), or an envelope arrives, with or without a result (of the
\* shape the operation expects or not) and with or without an error object
NoExchange == [error |-> FALSE, result |-> "absent", io |-> "none"]
Exchanges ==
    { [error |-> FALSE, result |-> "absent", io |-> "failure"],
      [error |-> FALSE, result |-> "absent", io |-> "malformed"] } \cup
    { [error |-> e, result |-> r, io |-> "envelope"] :
        r \in {"absent", "valid", "invalid"}, e \in BOOLEAN }

\* variant of send_request that connects by itself when it finds the
\* connector not connected
Connector_send_request_Reconnect(c, x) ==
    [c |-> [c EXCEPT !.connected = TRUE],
     r |-> IF x.io = "envelope" THEN Ok(x) ELSE Error("ConnectionError", x.io),
     exchanged |-> TRUE]

\* http.rs 34-52 and stdio.rs 51-85: send_request; x is what the exchange
\* comes to when there is one
Connector_send_request(c, x) ==
    IF ~c.connected
    THEN [c |-> c, r |-> Error("ConnectionError", "Not connected"), exchanged |-> FALSE]
    ELSE [c |-> c,
          r |-> IF x.io = "envelope" THEN Ok(x) ELSE Error("ConnectionError", x.io),
          exchanged |-> TRUE]

\* the operations of the Connector trait over send_request (base.rs 56-192)
ConnectorOps ==
    {"initialize", "list_tools", "call_tool", "list_resources", "read_resource",
     "list_prompts", "get_prompt"}
\* initialize and get_prompt hand the result on as it is
Unparsed == {"initialize", "get_prompt"}

\* base.rs 70-76, 84-94, 106-113, ...: what an operation makes of the response
Interpret(op, response) ==
    IF response.result # "absent"
    THEN IF op \in Unparsed \/ response.result = "valid"
         THEN Ok(response)
         ELSE Error("InvalidRequest", "Invalid response")
    ELSE IF response.error THEN Error("ServerError", "error.message")
    ELSE Error("InternalError", "No result in response")

Conn_Apply(op, c, r, exchanged, x) ==
    /\ connector' = c
    /\ connector_last' = [x |-> IF exchanged THEN x ELSE NoExchange,
                          r |-> r,
                          op |-> op,
                          exchanged |-> exchanged]
    /\ UNCHANGED <<agentVars, ctlVars, localVars, obsVars, envVars, catalog,
                   connector_kind, sessionVars, clientVars, multiVars, conc, pipe,
                   codec, serverVars, moreVars>>

\* http.rs 54-57, stdio.rs 87-104: connect
Conn_Connect ==
    \E o \in ConnectOutcomesOf(connector.kind) :
        Conn_Apply("connect",
                   IF o.ok THEN [connector EXCEPT !.connected = TRUE] ELSE connector,
                   IF o.ok THEN Ok(NoExchange)
                   ELSE Error("ConnectionError", "Failed to spawn process"),
                   FALSE, NoExchange)

\* http.rs 59-62, stdio.rs 106-113: disconnect
Conn_Disconnect ==
    Conn_Apply("disconnect", [connector EXCEPT !.connected = FALSE], Ok(NoExchange),
               FALSE, NoExchange)

Conn_SendRequest ==
    \E x \in Exchanges :
        LET sent == Connector_send_request(connector, x) IN
        Conn_Apply("send_request", sent.c, sent.r, sent.exchanged, x)

\* an operation of the trait: send_request, `?`, then the response is read
Conn_Operation ==
    \E op \in ConnectorOps : \E x \in Exchanges :
        LET sent == Connector_send_request(connector, x) IN
        Conn_Apply(op, sent.c,
                   IF sent.r.kind = "Err" THEN sent.r ELSE Interpret(op, sent.r.value),
                   sent.exchanged, x)

InitConnector ==
    /\ AgentsUnused
    /\ connector_kind = "http"
    /\ session = SessionNew
    /\ session_last = NoCall
    /\ client = ClientNew
    /\ client_last = NoCall
    /\ connector \in {ConnectorNew(k) : k \in ConnectorKinds}
    /\ connector_last = NoConnectorCall
    /\ RestUnused("connector")

NextConnector == Conn_Connect \/ Conn_Disconnect \/ Conn_SendRequest \/ Conn_Operation

SpecConnector == InitConnector /\ [][NextConnector]_vars

\* ------------------------------------------------ JSON-RPC requests encoded
\* JSON values, written as their text
JsonNull == "null"
JsonEmptyObject == "{}"
JsonValues == {JsonNull, JsonEmptyObject, "{\"name\":\"test\"}", "{\"uri\":\"u\"}", "[]"}
RequestMethods ==
    {"initialize", "tools/list", "tools/call", "resources/list", "resources/read",
     "prompts/list", "prompts/get"}

\* protocol.rs 46-53: JsonRpcRequest::new (the id is a fresh uuid)
JsonRpcRequest(id, m, params) ==
    [method |-> m, id |-> id, jsonrpc |-> "2.0", params |-> params]
JsonRpcRequests ==
    {JsonRpcRequest("uuid", m, p) :
        m \in RequestMethods, p \in {None} \cup {Some(v) : v \in JsonValues}}

\* variant of serialize_params that is the derived serialization of an Option
serialize_params_Derived(params) == IF params.some THEN params.s ELSE JsonNull

\* protocol.rs 9-17: serialize_params
serialize_params(params) == IF params.some THEN params.s ELSE JsonEmptyObject

\* the text of a string as a JSON value
Quoted(str) == <<"string", str>>

\* protocol.rs 36-43: #[derive(Serialize)] with serialize_with on params: the
\* object written, a function from the names of its fields to their values
Encode(req) ==
    [method |-> Quoted(req.method),
     id |-> Quoted(req.id),
     jsonrpc |-> Quoted(req.jsonrpc),
     params |-> <<"json", serialize_params(req.params)>>]

\* protocol.rs 36-43: #[derive(Deserialize)]: an Option field that is
\* missing or null is None
Decode(wire) ==
    [method |-> wire.method[2],
     id |-> wire.id[2],
     jsonrpc |-> wire.jsonrpc[2],
     params |-> IF "params" \notin DOMAIN wire \/ wire.params[2] = JsonNull
                THEN None ELSE Some(wire.params[2])]

Codec_Apply(c) ==
    /\ codec' = c
    /\ UNCHANGED <<agentVars, ctlVars, localVars, obsVars, envVars, catalog,
                   connector_kind, sessionVars, clientVars, multiVars, conc, pipe,
                   connectorVars, serverVars, moreVars>>

\* serde_json::to_string(&request)
Codec_Encode ==
    /\ codec.stage = "new"
    /\ Codec_Apply([codec EXCEPT !.stage = "encoded", !.wire = Encode(codec.request)])

\* serde_json::from_str::<JsonRpcRequest>
Codec_Decode ==
    /\ codec.stage = "encoded"
    /\ Codec_Apply([codec EXCEPT !.stage = "decoded", !.decoded = Decode(codec.wire)])

\* the next request is made
Codec_New ==
    /\ codec.stage = "decoded"
    /\ \E req \in JsonRpcRequests : Codec_Apply(CodecNew(req))

InitCodec ==
    /\ AgentsUnused
    /\ connector_kind = "http"
    /\ session = SessionNew
    /\ session_last = NoCall
    /\ client = ClientNew
    /\ client_last = NoCall
    /\ codec \in {CodecNew(req) : req \in JsonRpcRequests}
    /\ RestUnused("codec")

NextCodec == Codec_Encode \/ Codec_Decode \/ Codec_New

SpecCodec == InitCodec /\ [][NextCodec]_vars

\* ------------------------------------------------------- McpServer, tools
\* the descriptors a caller may register: two names, in two versions
ToolDescriptors ==
    {[name |-> n, description |-> d] : n \in {"n1", "n2"}, d \in {"d1", "d2"}}

\* variant of register_tool that keeps the descriptor a name already has
Register_tool_KeepFirst(registry, tool) ==
    IF tool.name \in DOMAIN registry THEN registry ELSE Put(registry, tool.name, tool)

\* server.rs 72-74: register_tool (DashMap::insert under tool.name)
Register_tool(registry, tool) == Put(registry, tool.name, tool)

\* server.rs 114-120: handle_tools_list: the values of the map, in the order
\* the map is iterated in
Handle_tools_list(registry, order) == [i \in DOMAIN order |-> registry[order[i]]]

Server_Apply(srv, last) ==
    /\ server' = srv
    /\ server_last' = last
    /\ UNCHANGED <<agentVars, ctlVars, localVars, obsVars, envVars, catalog,
                   connector_kind, sessionVars, clientVars, multiVars, conc, pipe,
                   connectorVars, codec, moreVars>>

Server_RegisterTool ==
    \E tool \in ToolDescriptors :
        /\ Len(server.registered) < MaxRegistered
        /\ Server_Apply([tools |-> Register_tool(server.tools, tool),
                         registered |-> Append(server.registered, tool)],
                        [NoServerCall EXCEPT !.op = "register_tool"])

Server_ToolsList ==
    \E order \in Orders(DOMAIN server.tools) :
        Server_Apply(server,
                     [NoServerCall EXCEPT
                        !.op = "tools/list",
                        !.listing = Handle_tools_list(server.tools, order)])

\* error.rs 49-66: Error::error_code
Error_code(variant) ==
    CASE variant = "InvalidRequest" -> -32600
      [] variant = "InvalidParams" -> -32602
      [] variant = "MethodNotFound" -> -32601
      [] variant = "InternalError" -> -32603
      [] variant = "ServerError" -> -32000
      [] variant = "ToolNotFound" -> -32001
      [] variant = "ResourceNotFound" -> -32002
      [] variant = "SerializationError" -> -32603
      [] variant = "RequestError" -> -32603
      [] variant = "Timeout" -> -32604
      [] variant = "ConnectionError" -> -32605
      [] variant = "LLMError" -> -32606
      [] OTHER -> -32603

\* server.rs 10-12: what the tool handler's execute may return
ExecuteOutcomes ==
    {Ok("content")} \cup
    {Error(v, "") : v \in {"InternalError", "ToolNotFound", "Timeout"}}

\* the params of a tools/call request: absent, without a name, or naming a
\* tool that may or may not be registered
CallNames == {"n1", "n2", "n3"}
CallParams ==
    {NoCallParams, [name |-> None, present |-> TRUE]} \cup
    {[name |-> Some(n), present |-> TRUE] : n \in CallNames}

\* variant of handle_tool_call that hands every name to the tool handler
Handle_tool_call_Unchecked(registry, name, o) == [r |-> o, executed |-> <<name>>]

\* server.rs 122-136: handle_tool_call; `o` is what execute returns when it
\* is invoked
Handle_tool_call(registry, name, o) ==
    IF name \notin DOMAIN registry
    THEN [r |-> Error("ToolNotFound", name), executed |-> <<>>]
    ELSE [r |-> o, executed |-> <<name>>]

\* server.rs 206-256: handle_request, the "tools/call" arm
Handle_request_tools_call(registry, params, o) ==
    IF ~params.present
    THEN [response |-> [result |-> "none", error_code |-> -32602], executed |-> <<>>]
    ELSE IF ~params.name.some
    THEN [response |-> [result |-> "none", error_code |-> -32602], executed |-> <<>>]
    ELSE LET call == Handle_tool_call(registry, params.name.s, o) IN
         IF call.r.kind = "Ok"
         THEN [response |-> [result |-> call.r.value, error_code |-> 0],
               executed |-> call.executed]
         ELSE [response |-> [result |-> "none",
                             error_code |-> Error_code(call.r.error.variant)],
               executed |-> call.executed]

Server_ToolsCall ==
    \E params \in CallParams, o \in ExecuteOutcomes :
        LET done == Handle_request_tools_call(server.tools, params, o) IN
        Server_Apply(server,
                     [NoServerCall EXCEPT
                        !.op = "tools/call",
                        !.params = params,
                        !.response = done.response,
                        !.executed = done.executed])

InitServer ==
    /\ AgentsUnused
    /\ connector_kind = "http"
    /\ session = SessionNew
    /\ session_last = NoCall
    /\ client = ClientNew
    /\ client_last = NoCall
    /\ server = ServerNew
    /\ server_last = NoServerCall
    /\ RestUnused("server")

NextServer == Server_RegisterTool \/ Server_ToolsList \/ Server_ToolsCall

SpecServer == InitServer /\ [][NextServer]_vars

\* ------------------------------------------------------ endpoint locators
\* a locator is a string, modelled as the sequence of its characters
Http == <<"h", "t", "t", "p", ":", "/", "/">>
Https == <<"h", "t", "t", "p", "s", ":", "/", "/">>
Stdio == <<"s", "t", "d", "i", "o", ":", "/", "/">>
\* the beginnings of the locators tried: the three schemes, another scheme,
\* a scheme cut short, and none
Beginnings ==
    {Http, Https, Stdio, <<"f", "t", "p", ":", "/", "/">>,
     <<"s", "t", "d", "i", "o", ":", "/">>, <<>>}
\* what follows the beginning: up to MaxLocator characters, blanks among them
Whitespace == {" ", "\t"}
RestChars == {"c", "-"} \cup Whitespace
Rests == UNION {[1..n -> RestChars] : n \in 0..MaxLocator}
Locators == {b \o rest : b \in Beginnings, rest \in Rests}

\* str::starts_with
Starts_with(str, prefix) ==
    /\ Len(str) >= Len(prefix)
    /\ SubSeq(str, 1, Len(prefix)) = prefix

\* str::split_whitespace, collected: the maximal runs of characters that are
\* not whitespace, in order
RECURSIVE Split_whitespace(_)
Split_whitespace(str) ==
    IF str = <<>> THEN <<>>
    ELSE IF Head(str) \in Whitespace THEN Split_whitespace(Tail(str))
    ELSE LET end == CHOOSE i \in 1..Len(str) :
                        /\ \A j \in 1..i : str[j] \notin Whitespace
                        /\ i = Len(str) \/ str[i + 1] \in Whitespace
         IN  <<SubSeq(str, 1, end)>> \o Split_whitespace(SubSeq(str, end + 1, Len(str)))

\* variant of create_connector_from_url that takes the text after stdio://
\* as the executable, whole
Create_connector_from_url_Whole(url) ==
    IF Starts_with(url, Http) \/ Starts_with(url, Https)
    THEN Ok([kind |-> "http", url |-> url])
    ELSE IF Starts_with(url, Stdio)
    THEN LET command_part == SubSeq(url, 9, Len(url)) IN
         IF command_part = <<>>
         THEN Error("InvalidRequest", "No command specified in stdio:// URL")
         ELSE Ok([kind |-> "stdio", args |-> <<>>, command |-> command_part])
    ELSE Error("InvalidRequest", "Unsupported URL scheme")

\* client.rs 106-135: create_connector_from_url
Create_connector_from_url(url) ==
    IF Starts_with(url, Http) \/ Starts_with(url, Https)
    THEN Ok([kind |-> "http", url |-> url])
    ELSE IF Starts_with(url, Stdio)
    THEN LET command_part == SubSeq(url, 9, Len(url))
             parts == Split_whitespace(command_part)
         IN  IF parts = <<>>
             THEN Error("InvalidRequest", "No command specified in stdio:// URL")
             ELSE Ok([kind |-> "stdio", args |-> Tail(parts), command |-> parts[1]])
    ELSE Error("InvalidRequest", "Unsupported URL scheme")

Locator_Apply(l) ==
    /\ locator' = l
    /\ UNCHANGED <<agentVars, ctlVars, localVars, obsVars, envVars, catalog,
                   connector_kind, sessionVars, clientVars, multiVars, conc, pipe,
                   connectorVars, codec, serverVars, adapter>>

\* the caller hands its locator to create_connector_from_url
Locator_Create ==
    /\ locator.r.kind = "None"
    /\ Locator_Apply([r |-> Create_connector_from_url(locator.url), url |-> locator.url])

InitLocator ==
    /\ AgentsUnused
    /\ connector_kind = "http"
    /\ session = SessionNew
    /\ session_last = NoCall
    /\ client = ClientNew
    /\ client_last = NoCall
    /\ locator \in {[r |-> NoReturn, url |-> given] : given \in Locators}
    /\ RestUnused("locator")

NextLocator == Locator_Create

SpecLocator == InitLocator /\ [][NextLocator]_vars

\* ------------------------------------------------------------ the agent
InitWith(budgets) ==
    /\ max_iterations \in budgets
    /\ disallowed_tools = [a \in Agents |-> <<>>]
    /\ catalog = <<Tool("tool"), Tool("other")>>
    /\ NoSessions
    /\ state = [a \in Agents |-> "Ready"]
    /\ conversation = [a \in Agents |-> <<>>]
    /\ pc = [a \in Agents |-> "idle"]
    /\ method = [a \in Agents |-> "none"]
    /\ turn = "a1"
    /\ iterations = [a \in Agents |-> 0]
    /\ final_response = [a \in Agents |-> <<>>]
    /\ tools = [a \in Agents |-> <<>>]
    /\ llm_response = [a \in Agents |-> NoResponse]
    /\ has_tool_use = [a \in Agents |-> FALSE]
    /\ assistant_message_added = [a \in Agents |-> FALSE]
    /\ cursor = [a \in Agents |-> 1]
    /\ ret = [a \in Agents |-> NoReturn]
    /\ events = [a \in Agents |-> <<>>]
    /\ trace = [a \in Agents |-> <<>>]
    /\ startConv = [a \in Agents |-> <<>>]
    /\ fetchAns = {}
    /\ llmAns = {}
    /\ toolAns = {}

Init == InitWith(0..MaxIter)

\* ---------------------------------------------------------- Agent::run
\* agent.rs 116-122: entry of run, up to the first test of the loop
Run(a, prompt) ==
    /\ Idle(a)
    /\ RunAllowed(a)
    /\ state' = [state EXCEPT ![a] = "Running"]
    /\ conversation' = [conversation EXCEPT ![a] = PushBack(@, MessageUser(prompt))]
    /\ iterations' = [iterations EXCEPT ![a] = 0]
    /\ final_response' = [final_response EXCEPT ![a] = <<>>]
    /\ startConv' = AtStart(startConv, a, conversation[a], <<>>)
    /\ ret' = AtStart(ret, a, NoReturn, NoReturn)
    /\ trace' = AtStart(trace, a, <<>>, <<>>)
    /\ pc' = [pc EXCEPT ![a] = "loop"]
    /\ method' = [method EXCEPT ![a] = "run"]
    /\ turn' = Other(a)
    /\ events' = AtStart(events, a, <<>>, <<>>)
    /\ EnvAtStart(a)
    /\ UNCHANGED <<configVars, tools, llm_response, has_tool_use,
                   assistant_message_added, cursor>>
    /\ UNCHANGED outsideAgent

\* agent.rs 124-125: the loop condition holds, the body is entered
Run_LoopEnter(a) ==
    /\ pc[a] = "loop" /\ method[a] = "run"
    /\ LoopCond(iterations[a], state[a])
    /\ iterations' = [iterations EXCEPT ![a] = @ + 1]
    /\ pc' = [pc EXCEPT ![a] = "tools"]
    /\ UNCHANGED <<method, turn, agentVars, final_response, tools, llm_response, has_tool_use,
                   assistant_message_added, cursor, obsVars, envVars>>
    /\ UNCHANGED outsideAgent

\* agent.rs 128: let tools = self.get_available_tools().await?
Run_GetAvailableTools(a) ==
    /\ pc[a] = "tools" /\ method[a] = "run"
    /\ \E o \in FetchOutcomes :
        /\ Answer(fetchAns, conversation[a], o)
        /\ trace' = [trace EXCEPT ![a] =
                        Append(@, [result |-> o, op |-> "list_tools"])]
        /\ IF o.ok
           THEN /\ tools' = [tools EXCEPT ![a] =
                                GetAvailableTools(o.tools, disallowed_tools[a])]
                /\ pc' = [pc EXCEPT ![a] = "llm"]
                /\ UNCHANGED <<ret, iterations, final_response, llm_response,
                               has_tool_use, assistant_message_added, cursor>>
           ELSE Return(a, Err(o.error))
    /\ UNCHANGED <<method, turn, agentVars, events, startConv, llmAns, toolAns>>
    /\ UNCHANGED outsideAgent

\* agent.rs 131-142: the LLM call and the reset of the per-turn flags
Run_CallLlm(a) ==
    /\ pc[a] = "llm" /\ method[a] = "run"
    /\ \E o \in LlmOutcomes(conversation[a]) :
        /\ Answer(llmAns, conversation[a], o)
        /\ trace' = [trace EXCEPT ![a] =
                        Append(@, [tools |-> tools[a],
                                   messages |-> conversation[a],
                                   result |-> o,
                                   op |-> "llm"])]
        /\ IF o.ok
           THEN /\ llm_response' = [llm_response EXCEPT ![a] =
                        [content |-> o.content, stop_reason |-> o.stop_reason]]
                /\ has_tool_use' = [has_tool_use EXCEPT ![a] = FALSE]
                /\ assistant_message_added' =
                        [assistant_message_added EXCEPT ![a] = FALSE]
                /\ cursor' = [cursor EXCEPT ![a] = 1]
                /\ pc' = [pc EXCEPT ![a] = "blocks"]
                /\ UNCHANGED <<ret, iterations, final_response, tools>>
           ELSE Return(a, Err("LLMError"))
    /\ UNCHANGED <<method, turn, agentVars, events, startConv, fetchAns, toolAns>>
    /\ UNCHANGED outsideAgent

\* variant of Run_Text that keeps the text of the last block only
Run_Text_Overwrite(a) ==
    /\ pc[a] = "blocks" /\ method[a] = "run"
    /\ cursor[a] <= Len(llm_response[a].content)
    /\ llm_response[a].content[cursor[a]].type = "text"
    /\ final_response' = [final_response EXCEPT ![a] =
                            <<llm_response[a].content[cursor[a]].text>>]
    /\ cursor' = [cursor EXCEPT ![a] = @ + 1]
    /\ UNCHANGED <<agentVars, ctlVars, iterations, tools, llm_response, has_tool_use,
                   assistant_message_added, obsVars, envVars>>
    /\ UNCHANGED outsideAgent

\* agent.rs 146-148: a Text block
Run_Text(a) ==
    /\ pc[a] = "blocks" /\ method[a] = "run"
    /\ cursor[a] <= Len(llm_response[a].content)
    /\ llm_response[a].content[cursor[a]].type = "text"
    /\ final_response' = [final_response EXCEPT ![a] =
                            Append(@, llm_response[a].content[cursor[a]].text)]
    /\ cursor' = [cursor EXCEPT ![a] = @ + 1]
    /\ UNCHANGED <<agentVars, ctlVars, iterations, tools, llm_response, has_tool_use,
                   assistant_message_added, obsVars, envVars>>
    /\ UNCHANGED outsideAgent

\* variant of Run_ToolUse that adds the assistant message at every tool request
Run_ToolUse_EveryRequest(a) ==
    LET blk == llm_response[a].content[cursor[a]] IN
    /\ pc[a] = "blocks" /\ method[a] = "run"
    /\ cursor[a] <= Len(llm_response[a].content)
    /\ blk.type = "tool_use"
    /\ has_tool_use' = [has_tool_use EXCEPT ![a] = TRUE]
    /\ state' = [state EXCEPT ![a] = "WaitingForToolResult"]
    /\ conversation' = [conversation EXCEPT ![a] =
            PushBack(@, AssistantMessage(llm_response[a]))]
    /\ assistant_message_added' = [assistant_message_added EXCEPT ![a] = TRUE]
    /\ pc' = [pc EXCEPT ![a] = "call_tool"]
    /\ UNCHANGED <<method, turn, configVars, iterations, final_response,
                   tools, llm_response, cursor, ret, events, trace, startConv, envVars>>
    /\ UNCHANGED outsideAgent

\* agent.rs 149-163: a ToolUse block, up to the call of the tool
Run_ToolUse(a) ==
    LET blk == llm_response[a].content[cursor[a]] IN
    /\ pc[a] = "blocks" /\ method[a] = "run"
    /\ cursor[a] <= Len(llm_response[a].content)
    /\ blk.type = "tool_use"
    /\ has_tool_use' = [has_tool_use EXCEPT ![a] = TRUE]
    /\ state' = [state EXCEPT ![a] = "WaitingForToolResult"]
    /\ conversation' = [conversation EXCEPT ![a] =
            IF ~assistant_message_added[a]
            THEN PushBack(@, AssistantMessage(llm_response[a])) ELSE @]
    /\ assistant_message_added' = [assistant_message_added EXCEPT ![a] = TRUE]
    /\ pc' = [pc EXCEPT ![a] = "call_tool"]
    /\ UNCHANGED <<method, turn, configVars, iterations, final_response,
                   tools, llm_response, cursor, ret, events, trace, startConv, envVars>>
    /\ UNCHANGED outsideAgent

\* variant of Run_ToolReturn that treats a failed call as run_with_events does:
\* the error becomes a tool result of the conversation and the turn goes on
Run_ToolReturn_Recovering(a) ==
    LET blk == llm_response[a].content[cursor[a]] IN
    /\ pc[a] = "call_tool" /\ method[a] = "run"
    /\ \E o \in ToolOutcomes :
        /\ Answer(toolAns, conversation[a], o)
        /\ trace' = [trace EXCEPT ![a] =
                        Append(@, [name |-> blk.name,
                                   input |-> blk.input,
                                   result |-> o,
                                   op |-> "call_tool"])]
        /\ conversation' = [conversation EXCEPT ![a] =
                IF o.ok
                THEN PushBack(@, ToolResultMessage(blk.id, o.content, o.is_error))
                ELSE PushBack(@, ToolResultMessage(blk.id, <<"Error: ", o.error>>,
                                                   "Some(true)"))]
        /\ state' = [state EXCEPT ![a] = "Running"]
        /\ cursor' = [cursor EXCEPT ![a] = @ + 1]
        /\ pc' = [pc EXCEPT ![a] = "blocks"]
    /\ UNCHANGED <<method, turn, configVars, iterations, final_response, tools, llm_response,
                   has_tool_use, assistant_message_added, ret, events, startConv,
                   fetchAns, llmAns>>
    /\ UNCHANGED outsideAgent

\* agent.rs 163-176: the tool call returns
Run_ToolReturn(a) ==
    LET blk == llm_response[a].content[cursor[a]] IN
    /\ pc[a] = "call_tool" /\ method[a] = "run"
    /\ \E o \in ToolOutcomes :
        /\ Answer(toolAns, conversation[a], o)
        /\ trace' = [trace EXCEPT ![a] =
                        Append(@, [name |-> blk.name,
                                   input |-> blk.input,
                                   result |-> o,
                                   op |-> "call_tool"])]
        /\ IF o.ok
           THEN /\ conversation' = [conversation EXCEPT ![a] =
                        PushBack(@, ToolResultMessage(blk.id, o.content, o.is_error))]
                /\ state' = [state EXCEPT ![a] = "Running"]
                /\ cursor' = [cursor EXCEPT ![a] = @ + 1]
                /\ pc' = [pc EXCEPT ![a] = "blocks"]
                /\ UNCHANGED <<ret, iterations, final_response, tools, llm_response,
                               has_tool_use, assistant_message_added>>
           ELSE /\ Return(a, Err(o.error))
                /\ UNCHANGED <<state, conversation>>
    /\ UNCHANGED <<method, turn, configVars, events, startConv,
                   fetchAns, llmAns>>
    /\ UNCHANGED outsideAgent

\* agent.rs 177: any other block
Run_OtherBlock(a) ==
    /\ pc[a] = "blocks" /\ method[a] = "run"
    /\ cursor[a] <= Len(llm_response[a].content)
    /\ llm_response[a].content[cursor[a]].type \notin {"text", "tool_use"}
    /\ cursor' = [cursor EXCEPT ![a] = @ + 1]
    /\ UNCHANGED <<agentVars, ctlVars, iterations, final_response, tools, llm_response,
                   has_tool_use, assistant_message_added, obsVars, envVars>>
    /\ UNCHANGED outsideAgent

\* agent.rs 181-192: after the last block of the turn
Run_EndOfTurn(a) ==
    /\ pc[a] = "blocks" /\ method[a] = "run"
    /\ cursor[a] > Len(llm_response[a].content)
    /\ IF ShouldStop(has_tool_use[a], llm_response[a].stop_reason)
       THEN /\ conversation' = [conversation EXCEPT ![a] =
                    IF ~assistant_message_added[a]
                    THEN PushBack(@, AssistantMessage(llm_response[a])) ELSE @]
            /\ state' = [state EXCEPT ![a] = "Done"]
       ELSE UNCHANGED <<state, conversation>>
    /\ pc' = [pc EXCEPT ![a] = "loop"]
    /\ UNCHANGED <<method, turn, configVars, localVars, obsVars, envVars>>
    /\ UNCHANGED outsideAgent

\* agent.rs 194-201: the loop condition fails, run returns
Run_Exit(a) ==
    /\ pc[a] = "loop" /\ method[a] = "run"
    /\ ~LoopCond(iterations[a], state[a])
    /\ IF BudgetCheck(iterations[a])
       THEN /\ state' = [state EXCEPT ![a] = "Error"]
            /\ Return(a, Err("InternalError: Max iterations reached"))
       ELSE /\ Return(a, Ok(final_response[a]))
            /\ UNCHANGED state
    /\ UNCHANGED <<method, turn, configVars, conversation, events, trace,
                   startConv, envVars>>
    /\ UNCHANGED outsideAgent

\* agent.rs 215-217: clear_conversation, between runs
ClearConversation(a) ==
    /\ Idle(a)
    /\ conversation' = [conversation EXCEPT ![a] = <<>>]
    /\ pc' = [pc EXCEPT ![a] = "idle"]
    /\ turn' = Other(a)
    /\ UNCHANGED method
    /\ UNCHANGED <<configVars, state, localVars, obsVars, envVars>>
    /\ UNCHANGED outsideAgent

\* -------------------------------------------------- Agent::run_with_events
\* variant of the sink that receives every event twice
Emit_Twice(evs, e) == Append(Append(evs, e), e)

Emit(evs, e) == Append(evs, e)

\* agent.rs 261-272: entry of run_with_events, up to the first loop test
RunWithEvents(a, prompt) ==
    /\ Idle(a)
    /\ RunAllowed(a)
    /\ state' = [state EXCEPT ![a] = "Running"]
    /\ conversation' = [conversation EXCEPT ![a] = PushBack(@, MessageUser(prompt))]
    /\ events' = AtStart(events, a, Emit(<<>>, [ev |-> "Started"]), <<>>)
    /\ iterations' = [iterations EXCEPT ![a] = 0]
    /\ final_response' = [final_response EXCEPT ![a] = <<>>]
    /\ startConv' = AtStart(startConv, a, conversation[a], <<>>)
    /\ ret' = AtStart(ret, a, NoReturn, NoReturn)
    /\ trace' = AtStart(trace, a, <<>>, <<>>)
    /\ pc' = [pc EXCEPT ![a] = "loop"]
    /\ method' = [method EXCEPT ![a] = "run_with_events"]
    /\ turn' = Other(a)
    /\ EnvAtStart(a)
    /\ UNCHANGED <<configVars, tools, llm_response, has_tool_use,
                   assistant_message_added, cursor>>
    /\ UNCHANGED outsideAgent

\* agent.rs 274-278: the loop condition holds, the body is entered
RunEv_LoopEnter(a) ==
    /\ pc[a] = "loop" /\ method[a] = "run_with_events"
    /\ LoopCond(iterations[a], state[a])
    /\ iterations' = [iterations EXCEPT ![a] = @ + 1]
    /\ events' = [events EXCEPT ![a] =
                    Emit(@, [iteration |-> iterations[a] + 1, ev |-> "LlmCall"])]
    /\ pc' = [pc EXCEPT ![a] = "tools"]
    /\ UNCHANGED <<method, turn, agentVars, final_response, tools, llm_response, has_tool_use,
                   assistant_message_added, cursor, ret, trace, startConv, envVars>>
    /\ UNCHANGED outsideAgent

\* agent.rs 281: let tools = self.get_available_tools().await?
RunEv_GetAvailableTools(a) ==
    /\ pc[a] = "tools" /\ method[a] = "run_with_events"
    /\ \E o \in FetchOutcomes :
        /\ Answer(fetchAns, conversation[a], o)
        /\ trace' = [trace EXCEPT ![a] =
                        Append(@, [result |-> o, op |-> "list_tools"])]
        /\ IF o.ok
           THEN /\ tools' = [tools EXCEPT ![a] =
                                GetAvailableTools(o.tools, disallowed_tools[a])]
                /\ pc' = [pc EXCEPT ![a] = "llm"]
                /\ UNCHANGED <<ret, iterations, final_response, llm_response,
                               has_tool_use, assistant_message_added, cursor>>
           ELSE Return(a, Err(o.error))
    /\ UNCHANGED <<method, turn, agentVars, events, startConv, llmAns, toolAns>>
    /\ UNCHANGED outsideAgent

\* agent.rs 284-295: the LLM call and the reset of the per-turn flags
RunEv_CallLlm(a) ==
    /\ pc[a] = "llm" /\ method[a] = "run_with_events"
    /\ \E o \in LlmOutcomes(conversation[a]) :
        /\ Answer(llmAns, conversation[a], o)
        /\ trace' = [trace EXCEPT ![a] =
                        Append(@, [tools |-> tools[a],
                                   messages |-> conversation[a],
                                   result |-> o,
                                   op |-> "llm"])]
        /\ IF o.ok
           THEN /\ llm_response' = [llm_response EXCEPT ![a] =
                        [content |-> o.content, stop_reason |-> o.stop_reason]]
                /\ has_tool_use' = [has_tool_use EXCEPT ![a] = FALSE]
                /\ assistant_message_added' =
                        [assistant_message_added EXCEPT ![a] = FALSE]
                /\ cursor' = [cursor EXCEPT ![a] = 1]
                /\ pc' = [pc EXCEPT ![a] = "blocks"]
                /\ UNCHANGED <<ret, iterations, final_response, tools>>
           ELSE Return(a, Err("LLMError"))
    /\ UNCHANGED <<method, turn, agentVars, events, startConv, fetchAns, toolAns>>
    /\ UNCHANGED outsideAgent

\* variant of RunEv_Text that emits the chunk without accumulating it
RunEv_Text_NoAccumulate(a) ==
    LET blk == llm_response[a].content[cursor[a]] IN
    /\ pc[a] = "blocks" /\ method[a] = "run_with_events"
    /\ cursor[a] <= Len(llm_response[a].content)
    /\ blk.type = "text"
    /\ events' = [events EXCEPT ![a] =
                    Emit(@, [text |-> blk.text, ev |-> "TextChunk"])]
    /\ cursor' = [cursor EXCEPT ![a] = @ + 1]
    /\ UNCHANGED <<agentVars, ctlVars, iterations, final_response, tools, llm_response,
                   has_tool_use, assistant_message_added, ret, trace, startConv, envVars>>
    /\ UNCHANGED outsideAgent

\* agent.rs 299-304: a Text block
RunEv_Text(a) ==
    LET blk == llm_response[a].content[cursor[a]] IN
    /\ pc[a] = "blocks" /\ method[a] = "run_with_events"
    /\ cursor[a] <= Len(llm_response[a].content)
    /\ blk.type = "text"
    /\ final_response' = [final_response EXCEPT ![a] = Append(@, blk.text)]
    /\ events' = [events EXCEPT ![a] =
                    Emit(@, [text |-> blk.text, ev |-> "TextChunk"])]
    /\ cursor' = [cursor EXCEPT ![a] = @ + 1]
    /\ UNCHANGED <<agentVars, ctlVars, iterations, tools, llm_response, has_tool_use,
                   assistant_message_added, ret, trace, startConv, envVars>>
    /\ UNCHANGED outsideAgent

\* agent.rs 305-323: a ToolUse block, up to the call of the tool
RunEv_ToolUse(a) ==
    LET blk == llm_response[a].content[cursor[a]] IN
    /\ pc[a] = "blocks" /\ method[a] = "run_with_events"
    /\ cursor[a] <= Len(llm_response[a].content)
    /\ blk.type = "tool_use"
    /\ has_tool_use' = [has_tool_use EXCEPT ![a] = TRUE]
    /\ state' = [state EXCEPT ![a] = "WaitingForToolResult"]
    /\ events' = [events EXCEPT ![a] =
                    Emit(@, [ev |-> "ToolCallStarted", tool_name |-> blk.name])]
    /\ conversation' = [conversation EXCEPT ![a] =
            IF ~assistant_message_added[a]
            THEN PushBack(@, AssistantMessage(llm_response[a])) ELSE @]
    /\ assistant_message_added' = [assistant_message_added EXCEPT ![a] = TRUE]
    /\ pc' = [pc EXCEPT ![a] = "call_tool"]
    /\ UNCHANGED <<method, turn, configVars, iterations, final_response,
                   tools, llm_response, cursor, ret, trace, startConv, envVars>>
    /\ UNCHANGED outsideAgent

\* variant of RunEv_ToolReturn that moves on to the next block without
\* appending the tool result of the call that returned
RunEv_ToolReturn_NoAppend(a) ==
    LET blk == llm_response[a].content[cursor[a]] IN
    /\ pc[a] = "call_tool" /\ method[a] = "run_with_events"
    /\ \E o \in ToolOutcomes :
        /\ Answer(toolAns, conversation[a], o)
        /\ trace' = [trace EXCEPT ![a] =
                        Append(@, [name |-> blk.name,
                                   input |-> blk.input,
                                   result |-> o,
                                   op |-> "call_tool"])]
        /\ events' = [events EXCEPT ![a] =
                        Emit(@, [result |-> <<>>,
                                 ev |-> "ToolCallCompleted",
                                 tool_name |-> blk.name])]
        /\ state' = [state EXCEPT ![a] = "Running"]
        /\ cursor' = [cursor EXCEPT ![a] = @ + 1]
        /\ pc' = [pc EXCEPT ![a] = "blocks"]
    /\ UNCHANGED <<method, turn, configVars, conversation, iterations, final_response,
                   tools, llm_response, has_tool_use, assistant_message_added, ret, startConv,
                   fetchAns, llmAns>>
    /\ UNCHANGED outsideAgent

\* agent.rs 323-370: the tool call returns, with a result or with an error
RunEv_ToolReturn(a) ==
    LET blk == llm_response[a].content[cursor[a]] IN
    /\ pc[a] = "call_tool" /\ method[a] = "run_with_events"
    /\ \E o \in ToolOutcomes :
        /\ Answer(toolAns, conversation[a], o)
        /\ trace' = [trace EXCEPT ![a] =
                        Append(@, [name |-> blk.name,
                                   input |-> blk.input,
                                   result |-> o,
                                   op |-> "call_tool"])]
        /\ IF o.ok
           THEN /\ events' = [events EXCEPT ![a] =
                        Emit(@, [result |-> o.content,
                                 ev |-> "ToolCallCompleted",
                                 tool_name |-> blk.name])]
                /\ conversation' = [conversation EXCEPT ![a] =
                        PushBack(@, ToolResultMessage(blk.id, o.content, o.is_error))]
           ELSE /\ events' = [events EXCEPT ![a] =
                        Emit(@, [error |-> o.error,
                                 ev |-> "ToolCallFailed",
                                 tool_name |-> blk.name])]
                /\ conversation' = [conversation EXCEPT ![a] =
                        PushBack(@, ToolResultMessage(blk.id, <<"Error: ", o.error>>,
                                                      "Some(true)"))]
        /\ state' = [state EXCEPT ![a] = "Running"]
        /\ cursor' = [cursor EXCEPT ![a] = @ + 1]
        /\ pc' = [pc EXCEPT ![a] = "blocks"]
    /\ UNCHANGED <<method, turn, configVars, iterations, final_response, tools, llm_response,
                   has_tool_use, assistant_message_added, ret, startConv,
                   fetchAns, llmAns>>
    /\ UNCHANGED outsideAgent

\* agent.rs 371: any other block
RunEv_OtherBlock(a) ==
    /\ pc[a] = "blocks" /\ method[a] = "run_with_events"
    /\ cursor[a] <= Len(llm_response[a].content)
    /\ llm_response[a].content[cursor[a]].type \notin {"text", "tool_use"}
    /\ cursor' = [cursor EXCEPT ![a] = @ + 1]
    /\ UNCHANGED <<agentVars, ctlVars, iterations, final_response, tools, llm_response,
                   has_tool_use, assistant_message_added, obsVars, envVars>>
    /\ UNCHANGED outsideAgent

\* agent.rs 375-390: after the last block of the turn
RunEv_EndOfTurn(a) ==
    /\ pc[a] = "blocks" /\ method[a] = "run_with_events"
    /\ cursor[a] > Len(llm_response[a].content)
    /\ events' = [events EXCEPT ![a] =
                    Emit(@, [iteration |-> iterations[a], ev |-> "IterationComplete"])]
    /\ IF ShouldStop(has_tool_use[a], llm_response[a].stop_reason)
       THEN /\ conversation' = [conversation EXCEPT ![a] =
                    IF ~assistant_message_added[a]
                    THEN PushBack(@, AssistantMessage(llm_response[a])) ELSE @]
            /\ state' = [state EXCEPT ![a] = "Done"]
       ELSE UNCHANGED <<state, conversation>>
    /\ pc' = [pc EXCEPT ![a] = "loop"]
    /\ UNCHANGED <<method, turn, configVars, localVars, ret, trace, startConv, envVars>>
    /\ UNCHANGED outsideAgent

\* agent.rs 392-405: the loop condition fails, run_with_events returns
RunEv_Exit(a) ==
    /\ pc[a] = "loop" /\ method[a] = "run_with_events"
    /\ ~LoopCond(iterations[a], state[a])
    /\ IF BudgetCheck(iterations[a])
       THEN /\ state' = [state EXCEPT ![a] = "Error"]
            /\ events' = [events EXCEPT ![a] =
                    Emit(@, [error |-> "Max iterations reached", ev |-> "Failed"])]
            /\ Return(a, Err("InternalError: Max iterations reached"))
       ELSE /\ events' = [events EXCEPT ![a] =
                    Emit(@, [response |-> final_response[a], ev |-> "Finished"])]
            /\ Return(a, Ok(final_response[a]))
            /\ UNCHANGED state
    /\ UNCHANGED <<method, turn, configVars, conversation, trace, startConv, envVars>>
    /\ UNCHANGED outsideAgent

\* everything the caller and the runtime can make agent a do
\* agent.rs 235-237: set_disallowed_tools
SetDisallowedTools(a, list) ==
    /\ Idle(a)
    /\ disallowed_tools' = [disallowed_tools EXCEPT ![a] = list]
    /\ UNCHANGED <<max_iterations, state, conversation, ctlVars, localVars, obsVars,
                   envVars, outsideAgent>>

\* agent.rs 245-249: disallow_tool
DisallowTool(a, tool_name) ==
    /\ Idle(a)
    /\ disallowed_tools' = [disallowed_tools EXCEPT ![a] =
            IF ~Contains(@, tool_name) THEN Append(@, tool_name) ELSE @]
    /\ UNCHANGED <<max_iterations, state, conversation, ctlVars, localVars, obsVars,
                   envVars, outsideAgent>>

AgentNext(a) ==
    \/ \E p \in Prompts : Run(a, p)
    \/ Run_LoopEnter(a)
    \/ Run_GetAvailableTools(a)
    \/ Run_CallLlm(a)
    \/ Run_Text(a)
    \/ Run_ToolUse(a)
    \/ Run_ToolReturn(a)
    \/ Run_OtherBlock(a)
    \/ Run_EndOfTurn(a)
    \/ Run_Exit(a)
    \/ \E p \in Prompts : RunWithEvents(a, p)
    \/ RunEv_LoopEnter(a)
    \/ RunEv_GetAvailableTools(a)
    \/ RunEv_CallLlm(a)
    \/ RunEv_Text(a)
    \/ RunEv_ToolUse(a)
    \/ RunEv_ToolReturn(a)
    \/ RunEv_OtherBlock(a)
    \/ RunEv_EndOfTurn(a)
    \/ RunEv_Exit(a)
    \/ ClearConversation(a)

Next == AgentNext("a1")

Spec == Init /\ [][Next]_vars

\* one agent with a budget that a run of MaxIter turns does not exhaust: the
\* run returns its text only if iterations < max_iterations at the end
\* (agent.rs 194), and a run starts only if history + max_iterations <= MaxConv
InitLong == InitWith({MaxConv})

\* the steps of Agent::run alone
NextLong ==
    \/ \E p \in Prompts : Run("a1", p)
    \/ Run_LoopEnter("a1")
    \/ Run_GetAvailableTools("a1")
    \/ Run_CallLlm("a1")
    \/ Run_Text("a1")
    \/ Run_ToolUse("a1")
    \/ Run_ToolReturn("a1")
    \/ Run_OtherBlock("a1")
    \/ Run_EndOfTurn("a1")
    \/ Run_Exit("a1")

SpecLong == InitLong /\ [][NextLong]_vars

\* the steps of a run in progress: every call the run awaits returns, so the
\* future of the run, once polled, takes its next step
RunSteps(a) ==
    \/ Run_LoopEnter(a)
    \/ Run_GetAvailableTools(a)
    \/ Run_CallLlm(a)
    \/ Run_Text(a)
    \/ Run_ToolUse(a)
    \/ Run_ToolReturn(a)
    \/ Run_OtherBlock(a)
    \/ Run_EndOfTurn(a)
    \/ Run_Exit(a)
    \/ RunEv_LoopEnter(a)
    \/ RunEv_GetAvailableTools(a)
    \/ RunEv_CallLlm(a)
    \/ RunEv_Text(a)
    \/ RunEv_ToolUse(a)
    \/ RunEv_ToolReturn(a)
    \/ RunEv_OtherBlock(a)
    \/ RunEv_EndOfTurn(a)
    \/ RunEv_Exit(a)

\* one run by either method, on a new agent
NextLive ==
    \/ \E p \in Prompts : pc["a1"] = "idle" /\ Run("a1", p)
    \/ \E p \in Prompts : pc["a1"] = "idle" /\ RunWithEvents("a1", p)
    \/ RunSteps("a1")

SpecLive == Init /\ [][NextLive]_vars /\ WF_vars(RunSteps("a1"))

\* ---------------------------------------------------- the LLM adapters
\* variant of the loop of OpenAIAdapter::call that admits one more iteration
Adapter_LoopCond_Inclusive(iteration) == iteration <= 20

\* openai.rs 308-310: for _iteration in 0..max_iterations, max_iterations = 20
Adapter_LoopCond(iteration) == iteration < 20

\* openai.rs 317-336: what a request to the vendor may come to: the request
\* cannot be sent, the status is no success, the body cannot be read or
\* parsed, or the response holds function calls, text, or neither
VendorResponses ==
    {[kind |-> k, function_calls |-> 0] :
        k \in {"send", "status", "read", "parse", "text", "empty"}} \cup
    {[kind |-> "function_calls", function_calls |-> n] : n \in 1..MaxFunctionCalls}

\* openai.rs 429-440: the turn OpenAIAdapter::call returns on success, for a
\* conversation of n messages
AdapterTurn(kind, n) ==
    [content |-> <<TextBlock(<<n, IF kind = "text" THEN 1 ELSE 0>>)>>,
     stop_reason |-> "EndTurn"]

Adapter_Apply(ad) ==
    /\ adapter' = ad
    /\ UNCHANGED <<agentVars, ctlVars, localVars, obsVars, envVars, catalog,
                   connector_kind, sessionVars, clientVars, multiVars, conc, pipe,
                   connectorVars, codec, serverVars, locator>>

\* agent.rs 131-135 and openai.rs 206-308: the agent calls the adapter
Adapter_Enter(a) ==
    /\ pc[a] = "llm" /\ method[a] = "run"
    /\ adapter.vendor = "openai"
    /\ adapter.pc = "idle"
    /\ Adapter_Apply([adapter EXCEPT !.pc = "loop", !.r = NoReturn, !.iteration = 0,
                                     !.requests = 0, !.function_calls = 0,
                                     !.last = "none"])

\* openai.rs 310-340 and 426-441: one request to the vendor and its response
Adapter_Request(a) ==
    /\ adapter.pc = "loop"
    /\ Adapter_LoopCond(adapter.iteration)
    /\ \E resp \in VendorResponses :
        LET asked == [adapter EXCEPT !.iteration = @ + 1, !.requests = @ + 1,
                                     !.last = resp.kind]
        IN  Adapter_Apply(
                CASE resp.kind \in {"send", "read"} ->
                        [asked EXCEPT !.pc = "done", !.r = Err("ConnectionError")]
                  [] resp.kind \in {"status", "parse"} ->
                        [asked EXCEPT !.pc = "done", !.r = Err("InternalError")]
                  [] resp.kind = "function_calls" ->
                        [asked EXCEPT !.pc = "calls",
                                      !.function_calls = resp.function_calls]
                  [] OTHER ->
                        [asked EXCEPT !.pc = "done",
                                      !.r = Ok(AdapterTurn(resp.kind,
                                                           Len(conversation[a])))])

\* openai.rs 346-424: the next function call of the response is executed, by
\* the MCP client of the adapter when it holds one
Adapter_ToolCall ==
    /\ adapter.pc = "calls"
    /\ adapter.function_calls > 0
    /\ \E o \in ToolOutcomes :
        LET next == [adapter EXCEPT
                        !.function_calls = @ - 1,
                        !.pc = IF adapter.function_calls = 1 THEN "loop" ELSE "calls"]
        IN  Adapter_Apply(
                IF ~adapter.mcp_client THEN next
                ELSE IF ~o.ok THEN [adapter EXCEPT !.pc = "done",
                                                   !.r = Err("InternalError")]
                ELSE IF o.is_error = "Some(true)"
                THEN [adapter EXCEPT !.pc = "done", !.r = Err("InternalError")]
                ELSE next)

\* openai.rs 444-448: the loop ends without a final answer
Adapter_Exhausted ==
    /\ adapter.pc = "loop"
    /\ ~Adapter_LoopCond(adapter.iteration)
    /\ Adapter_Apply([adapter EXCEPT !.pc = "done", !.r = Err("InternalError")])

\* agent.rs 131-142: the call of the adapter returns to the agent
Adapter_Return(a) ==
    /\ pc[a] = "llm" /\ method[a] = "run"
    /\ adapter.pc = "done"
    /\ adapter' = [adapter EXCEPT !.pc = "idle"]
    /\ trace' = [trace EXCEPT ![a] =
                    Append(@, [tools |-> tools[a],
                               messages |-> conversation[a],
                               result |-> adapter.r.kind,
                               op |-> "llm"])]
    /\ IF adapter.r.kind = "Ok"
       THEN /\ llm_response' = [llm_response EXCEPT ![a] = adapter.r.value]
            /\ has_tool_use' = [has_tool_use EXCEPT ![a] = FALSE]
            /\ assistant_message_added' =
                    [assistant_message_added EXCEPT ![a] = FALSE]
            /\ cursor' = [cursor EXCEPT ![a] = 1]
            /\ pc' = [pc EXCEPT ![a] = "blocks"]
            /\ UNCHANGED <<ret, iterations, final_response, tools>>
       ELSE Return(a, Err("LLMError"))
    /\ UNCHANGED <<method, turn, agentVars, events, startConv, envVars>>
    /\ UNCHANGED <<catalog, connector_kind, sessionVars, clientVars, multiVars, conc,
                   pipe, connectorVars, codec, serverVars, locator>>

\* anthropic.rs 117-270: AnthropicAdapter::call makes one request and hands
\* the blocks of the response on, tool requests among them
Adapter_PassThrough(a) ==
    /\ adapter.vendor = "anthropic"
    /\ Run_CallLlm(a)

InitAdapter ==
    /\ max_iterations \in 0..MaxIter
    /\ disallowed_tools = [a \in Agents |-> <<>>]
    /\ catalog = <<Tool("tool"), Tool("other")>>
    /\ connector_kind = "http"
    /\ session = SessionNew
    /\ session_last = NoCall
    /\ client = ClientNew
    /\ client_last = NoCall
    /\ RestUnused("adapter")
    /\ \E v \in {"anthropic", "openai"}, m \in BOOLEAN :
          adapter = [AdapterNew EXCEPT !.vendor = v, !.mcp_client = m]
    /\ state = [a \in Agents |-> "Ready"]
    /\ conversation = [a \in Agents |-> <<>>]
    /\ pc = [a \in Agents |-> "idle"]
    /\ method = [a \in Agents |-> "none"]
    /\ turn = "a1"
    /\ iterations = [a \in Agents |-> 0]
    /\ final_response = [a \in Agents |-> <<>>]
    /\ tools = [a \in Agents |-> <<>>]
    /\ llm_response = [a \in Agents |-> NoResponse]
    /\ has_tool_use = [a \in Agents |-> FALSE]
    /\ assistant_message_added = [a \in Agents |-> FALSE]
    /\ cursor = [a \in Agents |-> 1]
    /\ ret = [a \in Agents |-> NoReturn]
    /\ events = [a \in Agents |-> <<>>]
    /\ trace = [a \in Agents |-> <<>>]
    /\ startConv = [a \in Agents |-> <<>>]
    /\ fetchAns = {}
    /\ llmAns = {}
    /\ toolAns = {}

NextAdapter ==
    \/ \E p \in Prompts : Run("a1", p)
    \/ Run_LoopEnter("a1")
    \/ Run_GetAvailableTools("a1")
    \/ Adapter_PassThrough("a1")
    \/ Adapter_Enter("a1")
    \/ Adapter_Request("a1")
    \/ Adapter_ToolCall
    \/ Adapter_Exhausted
    \/ Adapter_Return("a1")
    \/ Run_Text("a1")
    \/ Run_ToolUse("a1")
    \/ Run_ToolReturn("a1")
    \/ Run_OtherBlock("a1")
    \/ Run_EndOfTurn("a1")
    \/ Run_Exit("a1")

SpecAdapter == InitAdapter /\ [][NextAdapter]_vars

\* ------------------------------------------------- the two methods paired
\* The caller gives a1 an operation only when a2 has repeated the previous
\* one, and a2 repeats what a1 has completed: run as run_with_events with
\* the same prompt, clear_conversation as itself.
Pair_Run ==
    /\ turn = "a1" /\ Idle("a2")
    /\ \E p \in Prompts : Run("a1", p)

Pair_Clear ==
    /\ turn = "a1" /\ Idle("a2")
    /\ ClearConversation("a1")

Pair_RunStep ==
    \/ Run_LoopEnter("a1")
    \/ Run_GetAvailableTools("a1")
    \/ Run_CallLlm("a1")
    \/ Run_Text("a1")
    \/ Run_ToolUse("a1")
    \/ Run_ToolReturn("a1")
    \/ Run_OtherBlock("a1")
    \/ Run_EndOfTurn("a1")
    \/ Run_Exit("a1")

Pair_RunWithEvents ==
    /\ turn = "a2" /\ pc["a1"] = "returned"
    /\ RunWithEvents("a2", conversation["a1"][Len(startConv["a1"]) + 1].content[1].text)

Pair_ClearToo ==
    /\ turn = "a2" /\ pc["a1"] = "idle"
    /\ ClearConversation("a2")

Pair_RunEvStep ==
    \/ RunEv_LoopEnter("a2")
    \/ RunEv_GetAvailableTools("a2")
    \/ RunEv_CallLlm("a2")
    \/ RunEv_Text("a2")
    \/ RunEv_ToolUse("a2")
    \/ RunEv_ToolReturn("a2")
    \/ RunEv_OtherBlock("a2")
    \/ RunEv_EndOfTurn("a2")
    \/ RunEv_Exit("a2")

NextPair ==
    \/ Pair_Run
    \/ Pair_Clear
    \/ Pair_RunStep
    \/ Pair_RunWithEvents
    \/ Pair_ClearToo
    \/ Pair_RunEvStep

SpecPair == Init /\ [][NextPair]_vars

TypeOK ==
    /\ state \in [Agents -> AgentState]
    /\ pc \in [Agents -> {"idle", "loop", "tools", "llm", "blocks", "call_tool", "returned"}]
    /\ \A a \in Agents : iterations[a] \in 0..(MaxIter + 1)

\* --------------------------------------- one agent with a disallow list
InitTools ==
    /\ max_iterations \in 1..MaxIterTools
    /\ disallowed_tools \in [Agents -> {<<>>}]
    /\ catalog \in Catalogs
    /\ NoSessions
    /\ state = [a \in Agents |-> "Ready"]
    /\ conversation = [a \in Agents |-> <<>>]
    /\ pc = [a \in Agents |-> "idle"]
    /\ method = [a \in Agents |-> "none"]
    /\ turn = "a1"
    /\ iterations = [a \in Agents |-> 0]
    /\ final_response = [a \in Agents |-> <<>>]
    /\ tools = [a \in Agents |-> <<>>]
    /\ llm_response = [a \in Agents |-> NoResponse]
    /\ has_tool_use = [a \in Agents |-> FALSE]
    /\ assistant_message_added = [a \in Agents |-> FALSE]
    /\ cursor = [a \in Agents |-> 1]
    /\ ret = [a \in Agents |-> NoReturn]
    /\ events = [a \in Agents |-> <<>>]
    /\ trace = [a \in Agents |-> <<>>]
    /\ startConv = [a \in Agents |-> <<>>]
    /\ fetchAns = {}
    /\ llmAns = {}
    /\ toolAns = {}

\* the caller starts every run of this agent on an empty conversation
Tools_Run == conversation["a1"] = <<>> /\ \E p \in Prompts : Run("a1", p)

Tools_RunWithEvents ==
    conversation["a1"] = <<>> /\ \E p \in Prompts : RunWithEvents("a1", p)

Tools_Step ==
    \/ Run_LoopEnter("a1") \/ Run_GetAvailableTools("a1") \/ Run_CallLlm("a1")
    \/ Run_Text("a1") \/ Run_ToolUse("a1") \/ Run_ToolReturn("a1")
    \/ Run_OtherBlock("a1") \/ Run_EndOfTurn("a1") \/ Run_Exit("a1")
    \/ RunEv_LoopEnter("a1") \/ RunEv_GetAvailableTools("a1") \/ RunEv_CallLlm("a1")
    \/ RunEv_Text("a1") \/ RunEv_ToolUse("a1") \/ RunEv_ToolReturn("a1")
    \/ RunEv_OtherBlock("a1") \/ RunEv_EndOfTurn("a1") \/ RunEv_Exit("a1")

NextTools ==
    \/ Tools_Run \/ Tools_RunWithEvents \/ Tools_Step
    \/ ClearConversation("a1")
    \/ \E list \in DisallowLists : SetDisallowedTools("a1", list)
    \/ \E t \in ToolNames : DisallowTool("a1", t)

SpecTools == InitTools /\ [][NextTools]_vars

\* ------------------------------------------------------ reading the state
Returned(a) == pc[a] = "returned"
Last(q) == q[Len(q)]
IsPrefix(p, q) == Len(p) <= Len(q) /\ SubSeq(q, 1, Len(p)) = p
Calls(a, op) == SelectSeq(trace[a], LAMBDA e : e.op = op)
LlmCalls(a) == Len(Calls(a, "llm"))
ToolUses(content) == {i \in DOMAIN content : content[i].type = "tool_use"}
BudgetError == Err("InternalError: Max iterations reached")

\* every call of the run so far succeeded and every turn asked for a tool
\* with stop reason ToolUse
AlwaysToolUse(a) ==
    \A i \in DOMAIN trace[a] :
        /\ trace[a][i].result.ok
        /\ trace[a][i].op = "llm" =>
            /\ ToolUses(trace[a][i].result.content) # {}
            /\ trace[a][i].result.stop_reason = "ToolUse"

\* ------------------------------------------------------------------ claims

\* C1: with max_iterations >= 1, a run (of either method) whose first LLM turn
\* holds no tool-request block has made exactly one LLM call when it returns,
\* has left the agent in state Done and has returned a success value.
C1_FirstTurnWithoutToolIsDone ==
    \A a \in Agents :
        ( /\ Returned(a)
          /\ max_iterations >= 1
          /\ LlmCalls(a) >= 1
          /\ Calls(a, "llm")[1].result.ok
          /\ ToolUses(Calls(a, "llm")[1].result.content) = {} )
        => ( /\ LlmCalls(a) = 1
             /\ state[a] = "Done"
             /\ ret[a].kind = "Ok" )

\* C2: a run in which every call succeeds and every LLM turn requests a tool
\* with stop reason ToolUse returns the iteration-budget error with the agent
\* in state Error, after exactly max_iterations LLM calls.
C2_AlwaysToolUseExhaustsBudget ==
    \A a \in Agents :
        (Returned(a) /\ AlwaysToolUse(a))
        => ( /\ state[a] = "Error"
             /\ ret[a] = BudgetError
             /\ LlmCalls(a) = max_iterations )

C2_Witness ==
    /\ Returned("a1") /\ AlwaysToolUse("a1")
    /\ method["a1"] = "run"
    /\ max_iterations = 2 /\ LlmCalls("a1") = 2

\* C3: when the loop of a run is left, the run fails with the iteration-budget
\* error (state Error) only if the state is not Done, and a run whose state is
\* Done returns the accumulated text and stays in Done.
C3_DoneRunReturnsText ==
    [][\A a \in Agents :
        (pc[a] = "loop" /\ pc'[a] = "returned")
        => /\ state[a] = "Done" =>
                (ret'[a] = Ok(final_response[a]) /\ state'[a] = "Done")
           /\ ret'[a] = BudgetError =>
                (state[a] # "Done" /\ state'[a] = "Error")]_vars

\* C4: whenever a run has returned, the agent state is Done if it returned a
\* success value and Error if it returned a failure.
C4_ReturnedStateIsTerminal ==
    \A a \in Agents :
        Returned(a) =>
            \/ ret[a].kind = "Ok" /\ state[a] = "Done"
            \/ ret[a].kind = "Err" /\ state[a] = "Error"

\* C5: while a run is in progress the agent state changes only along
\* Running -> WaitingForToolResult, WaitingForToolResult -> Running,
\* Running -> Done and Running -> Error (so Done and Error are never left).
RunTransitions ==
    { <<"Running", "WaitingForToolResult">>, <<"WaitingForToolResult", "Running">>,
      <<"Running", "Done">>, <<"Running", "Error">> }

C5_StateTransitions ==
    [][\A a \in Agents :
        (~Idle(a) /\ state'[a] # state[a])
        => <<state[a], state'[a]>> \in RunTransitions]_vars

\* C6: in Agent::run, when call_tool returns a failure the run returns that
\* failure at once: nothing is appended to the conversation for the failed
\* request and no call follows the failed one.
C6_PlainToolFailureAborts ==
    [][\A a \in Agents :
        ( /\ pc[a] = "call_tool" /\ method[a] = "run"
          /\ pc'[a] # "call_tool"
          /\ ~Last(trace'[a]).result.ok )
        => ( /\ pc'[a] = "returned"
             /\ ret'[a] = Err(Last(trace'[a]).result.error)
             /\ conversation'[a] = conversation[a]
             /\ trace'[a] = Append(trace[a], Last(trace'[a]))
             /\ Last(trace'[a]).op = "call_tool" )]_vars

\* a run has returned the failure of the first of two tools of a turn
C6_Witness ==
    /\ Returned("a1") /\ method["a1"] = "run"
    /\ Len(trace["a1"]) >= 2
    /\ Last(trace["a1"]).op = "call_tool" /\ ~Last(trace["a1"]).result.ok
    /\ trace["a1"][Len(trace["a1"]) - 1].op = "llm"
    /\ Cardinality(ToolUses(trace["a1"][Len(trace["a1"]) - 1].result.content)) = 2
    /\ ret["a1"] = Err("ServerError")

\* C7: in Agent::run_with_events, when call_tool returns a failure the run goes
\* on: ToolCallFailed is emitted, one User message with a tool result for the
\* id of the failed request and the error flag set is appended, the state is
\* Running again and the next block of the turn is processed.
C7_EventsToolFailureRecovers ==
    [][\A a \in Agents :
        ( /\ pc[a] = "call_tool" /\ method[a] = "run_with_events"
          /\ pc'[a] # "call_tool"
          /\ ~Last(trace'[a]).result.ok )
        => LET blk == llm_response[a].content[cursor[a]]
               msg == Last(conversation'[a])
           IN  /\ events'[a] = Append(events[a],
                        [error |-> Last(trace'[a]).result.error,
                         ev |-> "ToolCallFailed",
                         tool_name |-> blk.name])
               /\ Len(conversation'[a]) = Len(conversation[a]) + 1
               /\ IsPrefix(conversation[a], conversation'[a])
               /\ msg.role = "User" /\ Len(msg.content) = 1
               /\ msg.content[1].type = "tool_result"
               /\ msg.content[1].tool_use_id = blk.id
               /\ msg.content[1].is_error = "Some(true)"
               /\ state'[a] = "Running"
               /\ pc'[a] = "blocks" /\ cursor'[a] = cursor[a] + 1
               /\ ret'[a] = NoReturn]_vars

\* the first of two tools of a turn has failed and the second is up next
C7_Witness ==
    /\ pc["a1"] = "blocks" /\ method["a1"] = "run_with_events"
    /\ Last(events["a1"]).ev = "ToolCallFailed"
    /\ cursor["a1"] <= Len(llm_response["a1"].content)
    /\ llm_response["a1"].content[cursor["a1"]].type = "tool_use"
    /\ Last(conversation["a1"]).content[1].type = "tool_result"

\* C8: when a1 (through run) and a2 (through run_with_events) have completed a
\* run that started from the same conversation with the same prompt and in
\* which no tool call failed, they have made the same calls with the same
\* results and hold the same conversation, state and return value.
NoToolFailure(a) ==
    \A i \in DOMAIN trace[a] : trace[a][i].op = "call_tool" => trace[a][i].result.ok

SameStart ==
    /\ startConv["a1"] = startConv["a2"]
    /\ conversation["a1"][Len(startConv["a1"]) + 1]
         = conversation["a2"][Len(startConv["a2"]) + 1]

BothReturned == Returned("a1") /\ Returned("a2") /\ turn = "a1"

C8_MethodsAgree ==
    ( /\ BothReturned
      /\ method["a1"] = "run" /\ method["a2"] = "run_with_events"
      /\ SameStart
      /\ NoToolFailure("a1") /\ NoToolFailure("a2") )
    => ( /\ trace["a1"] = trace["a2"]
         /\ conversation["a1"] = conversation["a2"]
         /\ state["a1"] = state["a2"]
         /\ ret["a1"] = ret["a2"] )

\* both methods have completed a second run with two turns and a tool call
C8_Witness ==
    /\ BothReturned /\ SameStart
    /\ NoToolFailure("a1") /\ NoToolFailure("a2")
    /\ startConv["a1"] # <<>>
    /\ Calls("a2", "call_tool") # <<>>
    /\ ret["a2"].kind = "Ok" /\ ret["a2"].value # <<>>

\* C9: when run_with_events has returned, the first event it emitted is
\* Started and the last one is the only terminal event: Finished if it
\* returned a success value, Failed if it returned a failure.
TerminalEvents(a) ==
    {i \in DOMAIN events[a] : events[a][i].ev \in {"Finished", "Failed"}}

C9_TerminalEvent ==
    \A a \in Agents :
        (Returned(a) /\ method[a] = "run_with_events")
        => ( /\ events[a] # <<>>
             /\ events[a][1].ev = "Started"
             /\ TerminalEvents(a) = {Len(events[a])}
             /\ Last(events[a]).ev =
                    IF ret[a].kind = "Ok" THEN "Finished" ELSE "Failed" )

\* C10: during a run the conversation only grows at its end; a run starts by
\* appending one User prompt message to the conversation left behind; between
\* runs the conversation changes only by being cleared.
C10_ConversationAppendOnly ==
    [][\A a \in Agents :
        /\ ~Idle(a) => IsPrefix(conversation[a], conversation'[a])
        /\ (Idle(a) /\ pc'[a] \notin {"idle", "returned"}) =>
                \E p \in Prompts :
                    conversation'[a] = Append(conversation[a], MessageUser(p))
        /\ (Idle(a) /\ pc'[a] \in {"idle", "returned"}
                    /\ conversation'[a] # conversation[a]) =>
                conversation'[a] = <<>>]_vars

\* a second run on a kept history has appended the messages of a tool turn
C10_Witness ==
    /\ ~Idle("a1")
    /\ startConv["a1"] # <<>>
    /\ Len(conversation["a1"]) >= Len(startConv["a1"]) + 3

\* C11: in every conversation, each tool-result block carries the id of a
\* tool-request block of an Assistant message at an earlier position.
RequestedBefore(conv, i, id) ==
    \E j \in 1..(i - 1) :
        /\ conv[j].role = "Assistant"
        /\ \E l \in DOMAIN conv[j].content :
            /\ conv[j].content[l].type = "tool_use"
            /\ conv[j].content[l].id = id

C11_ToolResultsAnswerRequests ==
    \A a \in Agents : \A i \in DOMAIN conversation[a] :
        \A k \in DOMAIN conversation[a][i].content :
            conversation[a][i].content[k].type = "tool_result"
            => RequestedBefore(conversation[a], i,
                               conversation[a][i].content[k].tool_use_id)

\* a conversation holds the tool results of both requests of one turn, the
\* second of them made from the error of a failed call
C11_Witness ==
    /\ Len(conversation["a1"]) >= 4
    /\ Last(conversation["a1"]).content[1].type = "tool_result"
    /\ Last(conversation["a1"]).content[1].is_error = "Some(true)"
    /\ conversation["a1"][Len(conversation["a1"]) - 1].content[1].type = "tool_result"
    /\ Last(conversation["a1"]).content[1].tool_use_id
         # conversation["a1"][Len(conversation["a1"]) - 1].content[1].tool_use_id

\* C12: the tool requests of one turn are executed one at a time in the order
\* of the blocks: while the call for a request is in flight, the conversation
\* ends with the Assistant message of the turn followed by the tool results of
\* exactly the earlier requests of the turn, in block order, the calls
\* completed since the LLM call are those of the earlier requests, in order,
\* and in run_with_events at most one started call has not completed.
ToolRequests(content) == SelectSeq(content, LAMBDA b : b.type = "tool_use")
EarlierRequests(a) ==
    ToolRequests(SubSeq(llm_response[a].content, 1, cursor[a] - 1))
Started(a) == Len(SelectSeq(events[a], LAMBDA e : e.ev = "ToolCallStarted"))
Completed(a) == Len(Calls(a, "call_tool"))

C12_ToolsOneAtATime ==
    \A a \in Agents :
        /\ pc[a] = "call_tool" =>
            LET earlier == EarlierRequests(a)
                n == Len(earlier)
                base == Len(conversation[a]) - n
                tl == Len(trace[a])
            IN  /\ base >= 1
                /\ conversation[a][base] = AssistantMessage(llm_response[a])
                /\ \A k \in 1..n :
                    /\ conversation[a][base + k].role = "User"
                    /\ Len(conversation[a][base + k].content) = 1
                    /\ conversation[a][base + k].content[1].type = "tool_result"
                    /\ conversation[a][base + k].content[1].tool_use_id = earlier[k].id
                /\ tl >= n + 1
                /\ trace[a][tl - n].op = "llm"
                /\ \A k \in 1..n :
                    /\ trace[a][tl - n + k].op = "call_tool"
                    /\ trace[a][tl - n + k].input = earlier[k].input
        /\ (method[a] = "run_with_events" /\ ~Idle(a)) =>
            Started(a) - Completed(a) = IF pc[a] = "call_tool" THEN 1 ELSE 0

\* the call for the second request of a turn is in flight
C12_Witness ==
    /\ pc["a1"] = "call_tool" /\ method["a1"] = "run_with_events"
    /\ Len(EarlierRequests("a1")) = 1
    /\ cursor["a1"] = 2

\* C13: the tool list handed to the LLM provider holds no tool whose name is
\* on the disallow list of the agent, and holds every other tool of the
\* catalog fetched in that iteration.
C13_LlmSeesAllowedToolsOnly ==
    [][\A a \in Agents :
        (pc[a] = "llm" /\ pc'[a] # "llm")
        => LET call == Last(trace'[a])
               fetched == Last(trace[a]).result.tools
           IN  /\ call.op = "llm" /\ Last(trace[a]).op = "list_tools"
               /\ \A i \in DOMAIN call.tools :
                    ~Contains(disallowed_tools[a], call.tools[i].name)
               /\ \A i \in DOMAIN fetched :
                    ~Contains(disallowed_tools[a], fetched[i].name)
                    => Contains(call.tools, fetched[i])]_vars

\* the LLM was called with part of the catalog: one tool withheld, one passed
C13_Witness ==
    /\ ~Idle("a1")
    /\ trace["a1"] # <<>> /\ Last(trace["a1"]).op = "llm"
    /\ catalog = <<Tool("tool"), Tool("other")>>
    /\ disallowed_tools["a1"] = <<"tool">>
    /\ Last(trace["a1"]).tools = <<Tool("other")>>

\* C14: the agent never invokes call_tool with a name that is on its disallow
\* list, whatever tool requests the LLM returns.
C14_DisallowedToolNeverCalled ==
    [][\A a \in Agents :
        (pc[a] # "call_tool" /\ pc'[a] = "call_tool")
        => ~Contains(disallowed_tools[a],
                     llm_response[a].content[cursor[a]].name)]_vars

\* ------------------------------------------------------ claims on Session
Refreshed(what) == session_last'.op = RefreshOp(what) /\ session_last' # session_last
Listed == session_last'.calls[1].result
\* the entries of a listing that no later entry of the listing has the key of
LastByKey(what, list) ==
    {list[i] : i \in {j \in DOMAIN list :
        \A l \in DOMAIN list : l > j => KeyOf(what, list[l]) # KeyOf(what, list[j])}}

\* C15 as stated: after a successful refresh the cache holds exactly the
\* entries of the fresh listing: every listed entry is in it and nothing else.
C15_CacheHoldsEveryListedEntry ==
    [][\A what \in Caches :
        (Refreshed(what) /\ session_last'.r.kind = "Ok")
        => session'[CacheField(what)] = Range(Listed.list)]_vars

\* C15, amended: after a successful refresh the cache holds, for every key
\* (name, or uri for resources) of the fresh listing, the last listed entry
\* with that key, and nothing else; no entry from before the refresh survives
\* unless the listing puts it there.
C15_CacheHoldsLastEntryPerKey ==
    [][\A what \in Caches :
        (Refreshed(what) /\ session_last'.r.kind = "Ok")
        => /\ session'[CacheField(what)] = LastByKey(what, Listed.list)
           /\ \A e \in session'[CacheField(what)] : e \in Range(Listed.list)
           /\ \A k \in {KeyOf(what, e) : e \in Range(Listed.list)} :
                Cardinality({e \in session'[CacheField(what)] : KeyOf(what, e) = k}) = 1]_vars

\* a resource refresh listed one uri twice; the cache holds the later entry
C15_Witness ==
    /\ session_last.op = "refresh_resources" /\ session_last.r.kind = "Ok"
    /\ session_last.calls[1].result.list
         = <<Entry("resources", "k1", "v1"), Entry("resources", "k1", "v2")>>
    /\ session.resources_cache = {Entry("resources", "k1", "v2")}
    /\ session.tools_cache # {}

\* C16: a refresh whose listing call fails returns that failure and leaves
\* the session, its three caches included, as it was.
C16_FailedRefreshKeepsCaches ==
    [][\A what \in Caches :
        (Refreshed(what) /\ ~Listed.ok)
        => /\ session_last'.r = Err(Listed.error)
           /\ session'.tools_cache = session.tools_cache
           /\ session'.resources_cache = session.resources_cache
           /\ session'.prompts_cache = session.prompts_cache]_vars

\* a refresh failed on a connected session whose three caches are filled
C16_Witness ==
    /\ session_last.op = "refresh_tools" /\ session_last.r = Err("ServerError")
    /\ session.tools_cache # {}
    /\ session.resources_cache # {}
    /\ session.prompts_cache # {}

\* C17: Session::initialize fails exactly when the handshake fails.  When the
\* handshake succeeds and the tools refresh fails, it returns the handshake
\* result, the session is initialized and the tool cache is unchanged; when
\* the handshake fails, the initialized flag is unchanged (an uninitialized
\* session stays so) and no refresh is attempted.
C17_InitializeFailsWithHandshake ==
    [][(session_last'.op = "initialize" /\ session_last' # session_last)
        => LET calls == session_last'.calls
               handshake == calls[1].result
           IN  /\ calls[1].req = "initialize"
               /\ (session_last'.r.kind = "Err") <=> ~handshake.ok
               /\ handshake.ok =>
                    /\ session_last'.r = Ok(handshake.value)
                    /\ session'.initialized
                    /\ Len(calls) = 2 /\ calls[2].req = "tools/list"
                    /\ ~calls[2].result.ok =>
                            session'.tools_cache = session.tools_cache
               /\ ~handshake.ok =>
                    /\ session_last'.r = Err(handshake.error)
                    /\ session' = session
                    /\ Len(calls) = 1]_vars

\* initialize returned the capabilities although its refresh failed, on a
\* session that had tools cached
C17_Witness ==
    /\ session_last.op = "initialize" /\ session_last.r = Ok("capabilities")
    /\ Len(session_last.calls) = 2 /\ ~session_last.calls[2].result.ok
    /\ session.initialized
    /\ session.tools_cache # {}

\* C18: Session::disconnect leaves the connector disconnected and the
\* initialized flag false, and leaves the three caches unchanged, so that
\* get_tools returns the same entries as before.
C18_DisconnectKeepsCaches ==
    [][(session_last'.op = "disconnect" /\ session_last' # session_last)
        => /\ ~session'.connected /\ ~session'.initialized
           /\ session_last'.calls = <<Call("disconnect", [ok |-> TRUE])>>
           /\ session'.tools_cache = session.tools_cache
           /\ session'.resources_cache = session.resources_cache
           /\ session'.prompts_cache = session.prompts_cache
           /\ Session_get_tools(session') = Session_get_tools(session)]_vars

\* an initialized session with filled caches was disconnected
C18_Witness ==
    /\ session_last.op = "disconnect"
    /\ ~session.connected /\ ~session.initialized
    /\ session.tools_cache # {}
    /\ session.resources_cache # {}
    /\ session.prompts_cache # {}

\* ---------------------------------------------------- claims on McpClient
Operations ==
    {"list_tools", "call_tool", "list_resources", "read_resource", "list_prompts"}
Requests(calls, req) == {i \in DOMAIN calls : calls[i].req = req}
\* the client was called: the step records an operation or differs in its calls
Called ==
    \/ client_last'.op # client_last.op
    \/ client_last'.calls # client_last.calls
    \/ client' # client
Operated == client_last'.op \in Operations /\ Called
Initialized == client_last'.op = "initialize" /\ Called

StoredSessionIsUsed ==
    /\ (Operated /\ client.session.some)
        => LET calls == client_last'.calls IN
           /\ calls # <<>>
           /\ \A i \in DOMAIN calls : calls[i].on = "stored"
           /\ Requests(calls, "connect") = {} /\ Requests(calls, "initialize") = {}
           /\ client'.session.some
           /\ client'.session.s.connected = client.session.s.connected
           /\ client'.session.s.initialized = client.session.s.initialized
    /\ (Initialized /\ client_last'.r.kind = "Ok")
        => /\ client'.session.some /\ client'.initialized
           /\ client'.session.s.connected /\ client'.session.s.initialized
           /\ Requests(client_last'.calls, "connect") = {1}
           /\ Requests(client_last'.calls, "initialize") = {2}

\* C20 as stated: after a successful initialize every later operation uses
\* the stored session, with no further connect or handshake; after a failed
\* initialize the client stores no session.
C20_FailedInitializeStoresNoSession ==
    [][/\ StoredSessionIsUsed
       /\ (Initialized /\ client_last'.r.kind = "Err") => ~client'.session.some]_vars

\* C20, amended: after a successful initialize every later operation uses the
\* stored session, with no further connect or handshake; a failed initialize
\* leaves the client as it was: without a session if it stored none, with the
\* session of the last successful initialize otherwise.
C20_FailedInitializeKeepsClient ==
    [][/\ StoredSessionIsUsed
       /\ (Initialized /\ client_last'.r.kind = "Err") => client' = client]_vars

\* list_resources on an initialized client made its one call on the stored
\* session, which holds what was listed
C20_Witness ==
    /\ client.session.some /\ client.initialized
    /\ client_last.op = "list_resources" /\ client_last.r.kind = "Ok"
    /\ Len(client_last.calls) = 1 /\ client_last.calls[1].on = "stored"
    /\ client.session.s.resources_cache # {}

\* ------------------------------------- claims on the multi-server McpClient
\* the step is an operation on the multi-server client
MultiCalled == multi_last' # multi_last \/ multi' # multi
MultiOp(op) == multi_last'.op = op /\ MultiCalled
\* the calls made on endpoint n, as indexes of calls
CallsOn(calls, n, req) == {i \in DOMAIN calls : calls[i].on = n /\ calls[i].req = req}
\* endpoint n answered a request of the kind with success
Answered(calls, n, req) == \E i \in CallsOn(calls, n, req) : calls[i].result.ok
Spawned == {"http", "stdio"}

\* C21: create_all_sessions returns Ok whatever endpoints fail; every
\* configured endpoint with a transport is connected to, whatever the others
\* came to; and from an empty table, the table afterwards holds a name exactly
\* when that endpoint is configured with a transport, connected and answered
\* the initialize handshake.
C21_CreateAllSessionsIsBestEffort ==
    [][MultiOp("create_all_sessions")
        => LET calls == multi_last'.calls
               config == multi.servers_config IN
           /\ multi_last'.r.kind = "Ok"
           /\ multi'.servers_config = config
           /\ \A n \in DOMAIN config :
                config[n] \in Spawned => Cardinality(CallsOn(calls, n, "connect")) = 1
           /\ DOMAIN multi.sessions = {}
                => \A n \in ServerNames :
                     n \in DOMAIN multi'.sessions
                        <=> /\ n \in DOMAIN config /\ config[n] \in Spawned
                            /\ Answered(calls, n, "connect")
                            /\ Answered(calls, n, "initialize")]_vars

\* the endpoint visited first refused the handshake, the one visited after it
\* was connected to and has its session in the table
C21_Witness ==
    /\ multi_last.op = "create_all_sessions" /\ multi_last.r.kind = "Ok"
    /\ DOMAIN multi.servers_config = ServerNames
    /\ Cardinality(DOMAIN multi.sessions) = 1
    /\ \E n \in ServerNames :
        /\ multi_last.calls[1].on = n /\ n \notin DOMAIN multi.sessions
        /\ \E i \in CallsOn(multi_last.calls, n, "initialize") :
               ~multi_last.calls[i].result.ok
        /\ \E m \in DOMAIN multi.sessions :
               m # n /\ Answered(multi_last.calls, m, "initialize")

\* C22: list_tools_for_server and call_tool_on_server on a name without an
\* entry in the session table fail with the 'no active session' server error,
\* make no call on any connector and leave the client as it was.
C22_NoSessionNoRequest ==
    [][((MultiOp("list_tools_for_server") \/ MultiOp("call_tool_on_server"))
            /\ multi_last'.name \notin DOMAIN multi.sessions)
        => /\ multi_last'.r.kind = "Err"
           /\ multi_last'.r.error = "ServerError: No active session for server"
           /\ multi_last'.calls = <<>>
           /\ multi' = multi]_vars

\* a tool was called on a configured endpoint that has no session while the
\* other endpoint has one
C22_Witness ==
    /\ multi_last.op = "call_tool_on_server" /\ multi_last.r.kind = "Err"
    /\ multi_last.name \in DOMAIN multi.servers_config
    /\ multi.servers_config[multi_last.name] = "http"
    /\ multi_last.name \notin DOMAIN multi.sessions
    /\ DOMAIN multi.sessions # {}
    /\ multi_last.calls = <<>>

\* the pairs of a list_all_tools result that name endpoint n
PairsOf(pairs, n) == {i \in DOMAIN pairs : pairs[i].name = n}

\* C23: list_all_tools returns Ok; every session of the table is asked for
\* its tools once, whatever the others answered; the result holds one pair for
\* a session that answered with a listing, with the tools of that listing, and
\* none for any other name.
C23_ListAllToolsSkipsFailures ==
    [][MultiOp("list_all_tools")
        => LET calls == multi_last'.calls
               pairs == multi_last'.r.pairs IN
           /\ multi_last'.r.kind = "Ok"
           /\ \A n \in DOMAIN multi.sessions :
                Cardinality(CallsOn(calls, n, "tools/list")) = 1
           /\ \A n \in ServerNames :
                IF n \in DOMAIN multi.sessions /\ Answered(calls, n, "tools/list")
                THEN /\ Cardinality(PairsOf(pairs, n)) = 1
                     /\ \A i \in PairsOf(pairs, n) :
                          \A j \in CallsOn(calls, n, "tools/list") :
                            pairs[i].tools = LastByKey("tools", calls[j].result.list)
                ELSE PairsOf(pairs, n) = {}]_vars

\* the session asked first failed to list, the one asked after it listed a
\* tool, and the result is the one pair of the second
C23_Witness ==
    /\ multi_last.op = "list_all_tools" /\ multi_last.r.kind = "Ok"
    /\ Cardinality(DOMAIN multi.sessions) = 2
    /\ Len(multi_last.calls) = 2
    /\ ~multi_last.calls[1].result.ok
    /\ multi_last.calls[2].result.ok
    /\ Len(multi_last.r.pairs) = 1
    /\ multi_last.r.pairs[1].name = multi_last.calls[2].on
    /\ multi_last.r.pairs[1].tools # {}

C25_OneRequestInFlight ==
    /\ Cardinality(conc.in_flight) <= 1
    /\ \A t \in conc.in_flight : conc.mutex = t

\* one caller waits for a response while the two others wait for the lock
C25_Witness ==
    \E t \in Callers :
        /\ conc.in_flight = {t} /\ conc.pc[t] = "receive"
        /\ \A u \in Callers \ {t} : conc.pc[u] = "lock"

\* the request lines written and not yet answered to a caller: in the stdin
\* of the child or, answered by the child, in its stdout
InThePipes == pipe.stdin \o pipe.stdout

\* C26: whatever the interleaving of the callers of send_request on one
\* connected StdioConnector, from the write of a request line to the read of
\* its response no other request line is written: the lines in the pipes of
\* the child are at most one, that of the caller at the read, who holds the
\* guard on the child; and a caller that has read holds the response to its
\* own request.
C26_WriteAndReadAreOneSection ==
    /\ Len(InThePipes) <= 1
    /\ \A t \in Callers :
         /\ pipe.pc[t] = "read" => InThePipes = <<t>> /\ pipe.child_lock = t
         /\ pipe.pc[t] = "return" => pipe.got[t] = t /\ InThePipes = <<>>

\* one caller has read the response to its request while the two others wait
\* for the guard on the child
C26_Witness ==
    \E t \in Callers :
        /\ pipe.pc[t] = "return" /\ pipe.got[t] = t
        /\ \A u \in Callers \ {t} : pipe.pc[u] = "lock"

\* -------------------------------------------------- claims on connectors
\* the step is an operation on the connector
ConnCalled == connector_last' # connector_last \/ connector' # connector
ConnOp(op) == connector_last'.op = op /\ ConnCalled
\* Connector::is_connected (http.rs 64-66, stdio.rs 115-117)
Connector_is_connected(c) == c.connected

\* C27: a connector of either kind is not connected when made; it is
\* connected after a connect that returned Ok and not connected after a
\* disconnect; a request on a connector that is not connected fails with a
\* ConnectionError and exchanges nothing with the endpoint; and only a
\* connect that returned Ok turns a connector that is not connected into a
\* connected one.
C27_ConnectedFlagFollowsConnect ==
    /\ ~Connector_is_connected(connector)
    /\ [][/\ (ConnOp("connect") /\ connector_last'.r.kind = "Ok")
               => Connector_is_connected(connector')
          /\ ConnOp("disconnect")
               => ~Connector_is_connected(connector') /\ connector_last'.r.kind = "Ok"
          /\ ((ConnOp("send_request") \/ \E op \in ConnectorOps : ConnOp(op))
                   /\ ~Connector_is_connected(connector))
               => /\ connector_last'.r.kind = "Err"
                  /\ connector_last'.r.error.variant = "ConnectionError"
                  /\ ~connector_last'.exchanged
          /\ (~Connector_is_connected(connector) /\ Connector_is_connected(connector'))
               => ConnOp("connect") /\ connector_last'.r.kind = "Ok"]_vars

\* a request on a StdioConnector after its disconnect failed without an
\* exchange
C27_Witness ==
    /\ connector.kind = "stdio" /\ ~Connector_is_connected(connector)
    /\ connector_last.op = "send_request"
    /\ connector_last.r.kind = "Err" /\ ~connector_last.exchanged

\* C28: the failures of an exchange are told apart by kind: a failure of the
\* transport gives a ConnectionError, an envelope with an error object and no
\* result gives a ServerError for every operation, and a body that is not an
\* envelope gives a SerializationError.
C28_FailuresClassifiedByKind ==
    [][((\E op \in ConnectorOps : ConnOp(op)) /\ connector_last'.exchanged)
        => LET x == connector_last'.x
               r == connector_last'.r IN
           /\ x.io = "failure"
                => (r.kind = "Err" /\ r.error.variant = "ConnectionError")
           /\ (x.io = "envelope" /\ x.error /\ x.result = "absent")
                => (r.kind = "Err" /\ r.error.variant = "ServerError")
           /\ x.io = "malformed"
                => (r.kind = "Err" /\ r.error.variant = "SerializationError")]_vars

\* ------------------------------------------- claims on encoded requests
\* C29: a request without params is encoded with a params field that holds
\* the empty object, neither null nor missing, and decodes to params equal to
\* the empty object; a request with params is encoded with these params.
C29_AbsentParamsEncodeAsEmptyObject ==
    codec.stage \in {"encoded", "decoded"}
        => /\ "params" \in DOMAIN codec.wire
           /\ IF codec.request.params.some
              THEN codec.wire.params = <<"json", codec.request.params.s>>
              ELSE /\ codec.wire.params = <<"json", JsonEmptyObject>>
                   /\ codec.wire.params # <<"json", JsonNull>>
                   /\ codec.stage = "decoded"
                        => codec.decoded.params = Some(JsonEmptyObject)

\* a tools/list request without params went through encoding and decoding
C29_Witness ==
    /\ codec.stage = "decoded"
    /\ codec.request.method = "tools/list" /\ ~codec.request.params.some
    /\ codec.decoded.params = Some(JsonEmptyObject)

\* -------------------------------------------------- claims on McpServer
ServerCalled == server_last' # server_last \/ server' # server
\* the descriptor a name was registered with last
LastRegistered(name) ==
    LET at == {i \in DOMAIN server.registered : server.registered[i].name = name}
    IN  server.registered[CHOOSE i \in at : \A j \in at : j <= i]
RegisteredNames == {server.registered[i].name : i \in DOMAIN server.registered}

\* a tools listing holds exactly one descriptor for each name registered so
\* far, the one the name was registered with last, and no other descriptor
ListingHoldsOneDescriptorPerName ==
    server_last.op = "tools/list"
        => LET listing == server_last.listing IN
           /\ \A n \in RegisteredNames :
                /\ Cardinality({i \in DOMAIN listing : listing[i].name = n}) = 1
                /\ \E i \in DOMAIN listing : listing[i] = LastRegistered(n)
           /\ \A i \in DOMAIN listing : listing[i].name \in RegisteredNames

\* C30: after any sequence of register_tool calls, a tools listing holds
\* exactly one descriptor for each registered name, the one the name was
\* registered with last (a second registration replaces the descriptor), and
\* two listings with no registration in between hold the same descriptors.
C30_ListingHoldsRegisteredTools ==
    /\ []ListingHoldsOneDescriptorPerName
    /\ [][(server_last.op = "tools/list" /\ server_last'.op = "tools/list")
            => /\ Range(server_last'.listing) = Range(server_last.listing)
               /\ Len(server_last'.listing) = Len(server_last.listing)]_vars

\* a name was registered twice, with two descriptors, and another name once:
\* the listing holds two descriptors
C30_Witness ==
    /\ server_last.op = "tools/list"
    /\ Len(server.registered) = 3
    /\ server.registered[1].name = server.registered[3].name
    /\ server.registered[1] # server.registered[3]
    /\ server.registered[2].name # server.registered[1].name
    /\ Len(server_last.listing) = 2
    /\ server_last.listing[1] = server.registered[3]

\* C31: a tools/call for a name that is not registered yields the
\* tool-not-found error, code -32001, in the response envelope and the tool
\* handler's execute is not invoked for it; a tools/call for a registered
\* name invokes execute exactly once, with that name.
C31_UnregisteredToolNeverExecutes ==
    (server_last.op = "tools/call" /\ server_last.params.present
                                   /\ server_last.params.name.some)
        => LET name == server_last.params.name.s IN
           IF name \in DOMAIN server.tools
           THEN server_last.executed = <<name>>
           ELSE /\ server_last.executed = <<>>
                /\ server_last.response = [result |-> "none", error_code |-> -32001]

\* a tool is registered, and a call for another name was answered
C31_Witness ==
    /\ server_last.op = "tools/call"
    /\ server_last.params.name = Some("n3")
    /\ "n1" \in DOMAIN server.tools
    /\ server_last.response.error_code = -32001
    /\ server_last.executed = <<>>

\* ------------------------------------------------- claims on locators
\* the places of `text` where a word begins, and the word beginning at one
WordStarts(text) ==
    {i \in DOMAIN text :
        text[i] \notin Whitespace /\ (i = 1 \/ text[i - 1] \in Whitespace)}
WordAt(text, i) ==
    LET last == CHOOSE j \in i..Len(text) :
                    /\ \A k \in i..j : text[k] \notin Whitespace
                    /\ j = Len(text) \/ text[j + 1] \in Whitespace
    IN  SubSeq(text, i, last)
\* `words` are the words of `text`, in order
AreWordsOf(words, text) ==
    /\ Len(words) = Cardinality(WordStarts(text))
    /\ \A i \in WordStarts(text) :
          words[Cardinality({j \in WordStarts(text) : j <= i})] = WordAt(text, i)
Begins(url, scheme) ==
    \E n \in 0..Len(url) : url = scheme \o SubSeq(url, Len(url) - n + 1, Len(url))
TextAfter(url, scheme) == SubSeq(url, Len(scheme) + 1, Len(url))

\* C32: a locator beginning with http:// or https:// yields the HTTP
\* connector; a locator stdio://<text> yields the subprocess connector whose
\* executable is the first whitespace-separated word of <text> and whose
\* arguments are the remaining words in order; stdio:// with no word, and
\* every other beginning, fail with an invalid-request error and yield no
\* connector.
C32_LocatorSelectsConnector ==
    locator.r.kind # "None"
        => LET given == locator.url
               made == locator.r
           IN  IF Begins(given, Http) \/ Begins(given, Https)
               THEN made.kind = "Ok" /\ made.value.kind = "http"
               ELSE IF Begins(given, Stdio) /\ WordStarts(TextAfter(given, Stdio)) # {}
               THEN /\ made.kind = "Ok"
                    /\ made.value.kind = "stdio"
                    /\ AreWordsOf(<<made.value.command>> \o made.value.args,
                                  TextAfter(given, Stdio))
               ELSE made.kind = "Err" /\ made.error.variant = "InvalidRequest"

\* stdio://c -c gave the executable c and the one argument -c
C32_Witness ==
    /\ locator.url = Stdio \o <<"c", " ", "-", "c">>
    /\ locator.r = Ok([kind |-> "stdio", args |-> << <<"-", "c">> >>,
                       command |-> <<"c">>])

\* ------------------------------------------- claims on the LLM adapters
\* C33: one call of the OpenAI adapter makes at most 20 vendor requests; it
\* fails with an error when the 20th response still holds function calls;
\* a turn it returns with success holds text blocks only and has the stop
\* reason EndTurn; so an agent whose LLM is this adapter never is in
\* WaitingForToolResult and never calls a tool itself.
C33_SelfLoopingAdapterIsBounded ==
    adapter.vendor = "openai"
        => /\ adapter.requests <= 20
           /\ (adapter.pc = "done" /\ adapter.requests = 20
                                   /\ adapter.last = "function_calls")
                => adapter.r.kind = "Err"
           /\ adapter.r.kind = "Ok"
                => /\ adapter.r.value.stop_reason = "EndTurn"
                   /\ \A i \in DOMAIN adapter.r.value.content :
                        adapter.r.value.content[i].type = "text"
           /\ state["a1"] # "WaitingForToolResult"
           /\ \A i \in DOMAIN trace["a1"] : trace["a1"][i].op # "call_tool"

\* the 20th response held function calls, the adapter executed them and the
\* call failed
C33_Witness ==
    /\ adapter.vendor = "openai"
    /\ adapter.mcp_client
    /\ adapter.pc = "done"
    /\ adapter.requests = 20
    /\ adapter.last = "function_calls"
    /\ adapter.function_calls = 0
    /\ adapter.r.kind = "Err"

\* --------------------------------------- claims on the turns of a run
\* the step that ends the turn of agent a: the blocks are done with and the
\* test after them is made
EndsTurn(a) == pc[a] = "blocks" /\ pc'[a] = "loop"

\* C34: the step that ends a turn sets the state to Done exactly when the
\* turn held no tool-request block or its stop reason is EndTurn, and leaves
\* it Running otherwise (a turn with tool requests and stop reason ToolUse
\* or MaxTokens); whatever the stop reason, every tool request of the turn
\* was executed, in order, before that step.
C34_TurnEndsRunOrGoesOn ==
    [][\A a \in Agents :
        EndsTurn(a)
            => LET requests == ToolRequests(llm_response[a].content)
                   n == Len(requests)
                   tl == Len(trace[a])
               IN  /\ (state'[a] = "Done")
                        <=> (n = 0 \/ llm_response[a].stop_reason = "EndTurn")
                   /\ (n > 0 /\ llm_response[a].stop_reason \in {"ToolUse", "MaxTokens"})
                        => state'[a] = "Running"
                   /\ tl >= n + 1
                   /\ trace[a][tl - n].op = "llm"
                   /\ \A k \in 1..n :
                        /\ trace[a][tl - n + k].op = "call_tool"
                        /\ trace[a][tl - n + k].name = requests[k].name
                        /\ trace[a][tl - n + k].input = requests[k].input]_vars

\* a turn with a tool request and stop reason EndTurn has ended: the tool
\* was called and the state is Done
C34_Witness ==
    /\ pc["a1"] = "loop"
    /\ method["a1"] = "run"
    /\ state["a1"] = "Done"
    /\ ToolUses(llm_response["a1"].content) # {}
    /\ llm_response["a1"].stop_reason = "EndTurn"
    /\ Last(trace["a1"]).op = "call_tool"


\* C35: a turn processed to its end has added to the conversation the LLM was
\* called with exactly one Assistant message holding all blocks of the turn,
\* followed, for a turn with k tool requests, by exactly k User messages of
\* one tool-result block each, carrying the ids of the requests in their
\* order, and nothing else: the Assistant message is there once.
C35_OneAssistantMessagePerTurn ==
    [][\A a \in Agents :
        EndsTurn(a)
            => LET requests == ToolRequests(llm_response[a].content)
                   k == Len(requests)
                   base == trace[a][Len(trace[a]) - k].messages
                   conv == conversation'[a]
                   at == Len(base) + 1
               IN  /\ IsPrefix(base, conv)
                   /\ Len(conv) = at + k
                   /\ conv[at].role = "Assistant"
                   /\ conv[at].content = llm_response[a].content
                   /\ \A i \in 1..k :
                        /\ conv[at + i].role = "User"
                        /\ Len(conv[at + i].content) = 1
                        /\ conv[at + i].content[1].type = "tool_result"
                        /\ conv[at + i].content[1].tool_use_id = requests[i].id]_vars

\* a turn with two tool requests has ended: the conversation ends with the
\* Assistant message and the two tool results
C35_Witness ==
    /\ pc["a1"] = "loop"
    /\ Len(ToolRequests(llm_response["a1"].content)) = 2
    /\ Len(conversation["a1"]) >= 4
    /\ LET n == Len(conversation["a1"]) IN
        /\ conversation["a1"][n - 2].role = "Assistant"
        /\ conversation["a1"][n - 1].content[1].type = "tool_result"
        /\ conversation["a1"][n].content[1].type = "tool_result"
        /\ conversation["a1"][n - 1].content[1].tool_use_id
             # conversation["a1"][n].content[1].tool_use_id


\* --------------------------------------- claims on the order of the events
EventsOfKind(a, kind) == SelectSeq(events[a], LAMBDA e : e.ev = kind)
\* the number of events of the kind among the first n events
CountBefore(a, kind, n) ==
    Cardinality({j \in 1..n : events[a][j].ev = kind})
\* an iteration is open after the first n events: its LlmCall was emitted
\* and its IterationComplete was not
IterationOpen(a, n) ==
    CountBefore(a, "LlmCall", n) = CountBefore(a, "IterationComplete", n) + 1
ToolCallEnded == {"ToolCallCompleted", "ToolCallFailed"}

\* C36: in run_with_events, LlmCall{i} is the last event when the LLM is
\* called for the i-th time; each ToolCallStarted is followed at once by one
\* ToolCallCompleted or ToolCallFailed of the same tool, and each of these
\* follows a ToolCallStarted; every text and tool event lies between the
\* LlmCall and the IterationComplete of its iteration; and the iteration
\* numbers of the LlmCall events, and of the IterationComplete events, are
\* 1, 2, 3, ... in this order.
C36_EventsInOrder ==
    \A a \in Agents :
        method[a] = "run_with_events"
        => LET evs == events[a]
               called == EventsOfKind(a, "LlmCall")
               complete == EventsOfKind(a, "IterationComplete")
           IN  /\ \A i \in DOMAIN called : called[i].iteration = i
               /\ \A i \in DOMAIN complete : complete[i].iteration = i
               /\ Len(complete) <= Len(called) /\ Len(called) <= Len(complete) + 1
               /\ LlmCalls(a) <= Len(called)
               /\ pc[a] \in {"tools", "llm"}
                    => /\ Last(evs).ev = "LlmCall"
                       /\ Last(evs).iteration = iterations[a]
                       /\ LlmCalls(a) = iterations[a] - 1
               /\ \A i \in DOMAIN evs :
                    /\ evs[i].ev = "ToolCallStarted"
                        => IF i = Len(evs) THEN pc[a] = "call_tool"
                           ELSE /\ evs[i + 1].ev \in ToolCallEnded
                                /\ evs[i + 1].tool_name = evs[i].tool_name
                    /\ evs[i].ev \in ToolCallEnded
                        => i > 1 /\ evs[i - 1].ev = "ToolCallStarted"
                    /\ evs[i].ev \in {"TextChunk", "ToolCallStarted", "IterationComplete"}
                                        \cup ToolCallEnded
                        => IterationOpen(a, i - 1)
                    /\ evs[i].ev = "LlmCall" => ~IterationOpen(a, i - 1)

\* a run_with_events of two iterations has returned; a tool call failed in
\* it and another completed
C36_Witness ==
    /\ Returned("a1") /\ method["a1"] = "run_with_events"
    /\ Len(EventsOfKind("a1", "IterationComplete")) = 2
    /\ EventsOfKind("a1", "ToolCallFailed") # <<>>
    /\ EventsOfKind("a1", "ToolCallCompleted") # <<>>
    /\ EventsOfKind("a1", "TextChunk") # <<>>


\* --------------------------------------- claims on what a run returns
\* the texts of the Text blocks of a turn, in order
TextsOf(content) ==
    LET texts == SelectSeq(content, LAMBDA b : b.type = "text")
    IN  [i \in 1..Len(texts) |-> texts[i].text]
\* the texts of the Text blocks of the turns the LLM handed back, in order
RECURSIVE TextsOfTurns(_)
TextsOfTurns(calls) ==
    IF calls = <<>> THEN <<>>
    ELSE (IF Head(calls).result.ok THEN TextsOf(Head(calls).result.content) ELSE <<>>)
            \o TextsOfTurns(Tail(calls))
\* the texts of the Text blocks of the Assistant messages of a conversation
TextsIn(conv) ==
    UNION { {TextsOf(conv[i].content)[j] : j \in DOMAIN TextsOf(conv[i].content)} :
            i \in {k \in DOMAIN conv : conv[k].role = "Assistant"} }

InProgress(a) == pc[a] \notin {"idle", "returned"}
\* the LLM was called at most max_iterations times in the run of agent a, and
\* each of its calls comes right after a fetch of the tool catalog that succeeded
BoundedAndFetched(a) ==
    /\ LlmCalls(a) <= max_iterations
    /\ \A i \in DOMAIN trace[a] :
        trace[a][i].op = "llm"
            => /\ i > 1
               /\ trace[a][i - 1].op = "list_tools"
               /\ trace[a][i - 1].result.ok

\* C38: in a run by either method, whatever the LLM turns and the tool
\* outcomes and whatever the budget, the LLM is called at most max_iterations
\* times, the tool catalog is fetched before each call of the LLM, and a run
\* in progress returns, given that every call it awaits returns.
C38_RunIsBoundedAndReturns ==
    /\ [](\A a \in Agents : BoundedAndFetched(a))
    /\ \A a \in Agents : InProgress(a) ~> Returned(a)

\* a run has returned after as many calls of the LLM as the budget allows,
\* each after a fetch of the catalog
C38_Witness ==
    /\ Returned("a1")
    /\ max_iterations = MaxIter
    /\ LlmCalls("a1") = max_iterations
    /\ Len(Calls("a1", "list_tools")) = max_iterations
    /\ Calls("a1", "call_tool") # <<>>


\* --------------------------------------- claims on the conversation left behind
\* the positions <<message, block>> of the blocks of the type in a conversation
BlocksOfType(conv, type) ==
    UNION { {<<i, l>> : l \in {k \in DOMAIN conv[i].content :
                                    conv[i].content[k].type = type}} :
            i \in DOMAIN conv }
\* the tool-result blocks of the conversation that carry the id
ResultsFor(conv, id) ==
    {p \in BlocksOfType(conv, "tool_result") : conv[p[1]].content[p[2]].tool_use_id = id}
\* every tool request of the conversation has exactly one result with its id
EveryRequestAnswered(conv) ==
    \A p \in BlocksOfType(conv, "tool_use") :
        Cardinality(ResultsFor(conv, conv[p[1]].content[p[2]].id)) = 1

\* C39: whenever a run has returned, with success or with an error, every
\* tool-request block of the conversation is matched by exactly one
\* tool-result block with its id.
C39_NoRequestWithoutResult ==
    \A a \in Agents : Returned(a) => EveryRequestAnswered(conversation[a])

\* what holds of the code: a run that started from a conversation with every
\* request answered leaves one behind when run_with_events returns, and when
\* run returns unless a tool call of the run failed
AnsweredUnlessRunAborted ==
    \A a \in Agents :
        ( /\ Returned(a)
          /\ EveryRequestAnswered(startConv[a])
          /\ method[a] = "run_with_events" \/ NoToolFailure(a) )
            => EveryRequestAnswered(conversation[a])


\* --------------------------------------- claims on the connectors left behind
\* the calls of the last operation of the client that opened a connector of
\* a session made for that operation
OpenedByLast ==
    {i \in DOMAIN client_last.calls :
        /\ client_last.calls[i].on = "fresh"
        /\ client_last.calls[i].req = "connect"
        /\ client_last.calls[i].result.ok}
\* the session the last operation made is the one the client stores
StoredByLast == client_last.op = "initialize" /\ client_last.r.kind = "Ok"

\* C40: a connector that an operation of the client connected is
\* disconnected before the operation returns, unless its session is the one
\* the client stores: after an operation before initialize, and after an
\* initialize that fails at the handshake, the call that opened the connector
\* is followed by a disconnect of it.
C40_DiscardedConnectorIsDisconnected ==
    ~StoredByLast
        => \A i \in OpenedByLast :
            \E j \in DOMAIN client_last.calls :
                /\ j > i
                /\ client_last.calls[j].on = "fresh"
                /\ client_last.calls[j].req = "disconnect"

====
